---- MODULE Spec2Model ----
(***************************************************************************)
(* TinyUSB device stack: the Mass Storage Class Bulk-Only Transport driver *)
(* (src/class/msc/msc_device.c) on top of the endpoint services of the     *)
(* device core and of the STM32 FSDev controller driver.                   *)
(*                                                                         *)
(* The C handlers are sequential code over one static interface record;    *)
(* each C function is an operator from a machine record M (interface,      *)
(* endpoints, event queue, endpoint buffer) to the machine record after    *)
(* the call, and each action of the next-state relation is one handler     *)
(* run to completion.                                                      *)
(*                                                                         *)
(* The controller driver (src/portable/st/stm32_fsdev/dcd_stm32_fsdev.c)   *)
(* is modelled the same way over a controller record D: the allocation     *)
(* cursor and table, the transfer records, the endpoint registers and the  *)
(* buffer description table.                                               *)
(***************************************************************************)
EXTENDS Integers, Sequences, FiniteSets, TLC

(***************************************************************************)
(* Bounds of the model                                                     *)
(***************************************************************************)
\* length of the device event queue that interrupt-context producers may fill
MaxQueue == 1
\* number of command blocks the host sends in one run
MaxCommands == 2
\* CFG_TUD_MSC_EP_BUFSIZE, the size of the class endpoint buffer (application configuration)
CFG_TUD_MSC_EP_BUFSIZE == 64
\* number of endpoint allocations the device core asks for in one run
MaxOpens == 3
\* the host stops sending to an OUT transfer that has taken this many bytes
MaxBytes == 24
\* number of transfers the device core submits in one run
MaxXfers == 2

(***************************************************************************)
(* Program constants                                                       *)
(***************************************************************************)
MSC_STAGE_CMD == 0
MSC_STAGE_DATA == 1
MSC_STAGE_STATUS == 2
MSC_STAGE_STATUS_SENT == 3
MSC_STAGE_NEED_RESET == 4

\* sizeof(msc_cbw_t), sizeof(msc_csw_t)
SIZEOF_CBW == 31
SIZEOF_CSW == 13

MSC_CBW_SIGNATURE == 1128420181
MSC_CSW_SIGNATURE == 1396855637

MSC_CSW_STATUS_PASSED == 0
MSC_CSW_STATUS_FAILED == 1
MSC_CSW_STATUS_PHASE_ERROR == 2

SCSI_CMD_TEST_UNIT_READY == 0
SCSI_CMD_REQUEST_SENSE == 3
SCSI_CMD_INQUIRY == 18
SCSI_CMD_MODE_SENSE_6 == 26
SCSI_CMD_START_STOP_UNIT == 27
SCSI_CMD_PREVENT_ALLOW_MEDIUM_REMOVAL == 30
SCSI_CMD_READ_FORMAT_CAPACITY == 35
SCSI_CMD_READ_CAPACITY_10 == 37
SCSI_CMD_READ_10 == 40
SCSI_CMD_WRITE_10 == 42
\* an opcode that is not built in (vendor specific)
SCSI_CMD_VENDOR == 192

SCSI_SENSE_NOT_READY == 2
SCSI_SENSE_ILLEGAL_REQUEST == 5
SCSI_SENSE_DATA_PROTECT == 7

TUD_MSC_RET_BUSY == 0
TUD_MSC_RET_ERROR == -1
TUD_MSC_RET_ASYNC == -2

\* bulk endpoint addresses given to the interface by its descriptor
EP_OUT_ADDR == 1
EP_IN_ADDR == 129
\* cbw.dir value with bit 7 set
DIR_IN == 128
DIR_OUT == 0

(***************************************************************************)
(* Integer widths.  TLC integers are 32-bit signed, so the unsigned 32-bit *)
(* word is modelled with modulus 2^30; every count of the model is far     *)
(* below it and a wrapped difference is far above every count.             *)
(***************************************************************************)
U32 == 2^30
U16 == 2^16

Sub32(a, b) == ((a - b) + U32) % U32
Add32(a, b) == (a + b) % U32
ToU16(x) == x % U16
tu_min32(a, b) == IF a < b THEN a ELSE b

(***************************************************************************)
(* Records                                                                 *)
(***************************************************************************)
ZeroCbw == [tag |-> 0, total_bytes |-> 0, dir |-> 0, cmd_len |-> 0,
            command |-> 0, lba |-> 0, block_count |-> 0]
ZeroCsw == [signature |-> 0, tag |-> 0, data_residue |-> 0, status |-> 0]

\* tu_memclr(&_mscd_itf, sizeof(mscd_interface_t))
ZeroItf == [cbw |-> ZeroCbw, csw |-> ZeroCsw, ep_in |-> 0, ep_out |-> 0,
            total_len |-> 0, xferred_len |-> 0, stage |-> MSC_STAGE_CMD,
            sense_key |-> 0, add_sense_code |-> 0, add_sense_qualifier |-> 0,
            pending_io |-> 0]

\* content of _mscd_epbuf.buf: a CBW image, a CSW image, or other bytes
BufData == [kind |-> "data", cbw |-> ZeroCbw, csw |-> ZeroCsw, sense |-> <<0, 0, 0>>]
BufCbw(c) == [kind |-> "cbw", cbw |-> c, csw |-> ZeroCsw, sense |-> <<0, 0, 0>>]
BufCsw(c) == [kind |-> "csw", cbw |-> ZeroCbw, csw |-> c, sense |-> <<0, 0, 0>>]
\* the 18-byte sense response
BufSense(key, asc, ascq) == [kind |-> "sense", cbw |-> ZeroCbw, csw |-> ZeroCsw, sense |-> <<key, asc, ascq>>]

\* endpoint: busy/stalled are the device core's flags, stat is the STAT field
\* of the controller's endpoint register, len the length of the armed
\* transfer, data what the controller transmits (IN)
EpClosed == [busy |-> FALSE, stalled |-> FALSE, stat |-> "DIS", len |-> 0, data |-> BufData]
EpIdle == [busy |-> FALSE, stalled |-> FALSE, stat |-> "NAK", len |-> 0, data |-> BufData]

Bulk == {EP_OUT_ADDR, EP_IN_ADDR}

\* control requests routed to the interface by the device core
ControlRequests == {"clear_halt_out", "clear_halt_in", "msc_reset",
                    "msc_reset_malformed", "get_max_lun"}

\* entries of the device event queue
EvXfer(a, n) == [type |-> "xfer", ep |-> a, req |-> "", bytes |-> n]
EvSetup(r) == [type |-> "setup", ep |-> 0, req |-> r, bytes |-> 0]
EvFunc(n) == [type |-> "func", ep |-> 0, req |-> "", bytes |-> n]
EvBusReset == [type |-> "bus_reset", ep |-> 0, req |-> "", bytes |-> 0]

(***************************************************************************)
(* Endpoint services of the device core (usbd_edpt_xfer, ...) over the     *)
(* controller driver (dcd_edpt_xfer, ...).  M is the machine record        *)
(*   [itf, ep, queue, epbuf, io, tx, cb]                                   *)
(* where tx is what the running handler has handed to bulk IN so far and   *)
(* cb the read10/write10/scsi callback it has invoked, with its arguments  *)
(* and its return value.                                                   *)
(***************************************************************************)
\* dcd_edpt_xfer: arm the endpoint (STAT = VALID) for n bytes; an IN
\* endpoint transmits the bytes the buffer holds now
dcd_edpt_xfer(e, buf, n) == [e EXCEPT !.stat = "VALID", !.len = n, !.data = buf]
\* dcd_edpt_stall: STAT = STALL, the armed transfer is gone
dcd_edpt_stall(e) == [e EXCEPT !.stat = "STALL", !.len = 0, !.data = BufData]
\* dcd_edpt_clear_stall: STAT = NAK
dcd_edpt_clear_stall(e) == [e EXCEPT !.stat = "NAK", !.len = 0, !.data = BufData]

usbd_edpt_busy(M, a) == a \in Bulk /\ M.ep[a].busy
usbd_edpt_stalled(M, a) == a \in Bulk /\ M.ep[a].stalled
usbd_edpt_ready(M, a) == a \in Bulk /\ ~M.ep[a].busy /\ ~M.ep[a].stalled

\* usbd_edpt_xfer: refused (false, nothing changes) on a busy endpoint
usbd_edpt_xfer_ok(M, a) == a \in Bulk /\ ~M.ep[a].busy
usbd_edpt_xfer(M, a, n) ==
  IF usbd_edpt_xfer_ok(M, a)
  THEN [M EXCEPT !.ep[a] = dcd_edpt_xfer([@ EXCEPT !.busy = TRUE],
                                         IF a = EP_IN_ADDR THEN M.epbuf ELSE BufData, n),
                 !.tx = IF a = EP_IN_ADDR THEN M.epbuf.kind ELSE @]
  ELSE M

usbd_edpt_stall(M, a) ==
  IF a \in Bulk
  THEN [M EXCEPT !.ep[a] = [dcd_edpt_stall(@) EXCEPT !.stalled = TRUE, !.busy = TRUE]]
  ELSE M

\* usbd_edpt_clear_stall: only an endpoint that is stalled is cleared
usbd_edpt_clear_stall(M, a) ==
  IF a \in Bulk /\ M.ep[a].stalled
  THEN [M EXCEPT !.ep[a] = [dcd_edpt_clear_stall(@) EXCEPT !.stalled = FALSE, !.busy = FALSE]]
  ELSE M

\* dcd_event_xfer_complete called from the task: a faked completion is queued
dcd_event_xfer_complete(M, a, n) == [M EXCEPT !.queue = Append(@, EvXfer(a, n))]
\* usbd_defer_func: the function call is queued for the device task
usbd_defer_func(M, n) == [M EXCEPT !.queue = Append(@, EvFunc(n))]

(***************************************************************************)
(* msc_device.c                                                            *)
(***************************************************************************)
is_data_in(dir) == (dir \div 128) % 2 = 1

tud_msc_set_sense(M, key, asc, ascq) ==
  [M EXCEPT !.itf.sense_key = key, !.itf.add_sense_code = asc,
            !.itf.add_sense_qualifier = ascq]

set_sense_medium_not_present(M) == tud_msc_set_sense(M, SCSI_SENSE_NOT_READY, 58, 0)

send_csw(M) ==
  LET M1 == [M EXCEPT !.itf.csw.data_residue = Sub32(M.itf.cbw.total_bytes, M.itf.xferred_len),
                      !.itf.stage = MSC_STAGE_STATUS_SENT]
      M2 == [M1 EXCEPT !.epbuf = BufCsw(M1.itf.csw)]
  IN usbd_edpt_xfer(M2, M2.itf.ep_in, SIZEOF_CSW)

prepare_cbw(M) ==
  usbd_edpt_xfer([M EXCEPT !.itf.stage = MSC_STAGE_CMD], M.itf.ep_out, SIZEOF_CBW)

fail_scsi_op(M, status) ==
  LET residue == Sub32(M.itf.cbw.total_bytes, M.itf.xferred_len)
      M1 == [M EXCEPT !.itf.csw.status = status,
                      !.itf.csw.data_residue = residue,
                      !.itf.stage = MSC_STAGE_STATUS]
      M2 == IF M1.itf.sense_key = 0
            THEN tud_msc_set_sense(M1, SCSI_SENSE_ILLEGAL_REQUEST, 32, 0)
            ELSE M1
  IN IF M2.itf.cbw.total_bytes # 0 /\ residue # 0
     THEN IF is_data_in(M2.itf.cbw.dir)
          THEN usbd_edpt_stall(M2, M2.itf.ep_in)
          ELSE usbd_edpt_stall(M2, M2.itf.ep_out)
     ELSE M2

rdwr10_get_lba(cbw) == cbw.lba
rdwr10_get_blockcount(cbw) == cbw.block_count

rdwr10_get_blocksize(cbw) ==
  IF rdwr10_get_blockcount(cbw) = 0 THEN 0
  ELSE ToU16(cbw.total_bytes \div rdwr10_get_blockcount(cbw))

\* rdwr10_validate_cmd without the check of the computed block size
rdwr10_validate_cmd_any_blocksize(cbw) ==
  LET block_count == rdwr10_get_blockcount(cbw) IN
  IF cbw.total_bytes = 0
  THEN IF block_count # 0 THEN MSC_CSW_STATUS_PHASE_ERROR ELSE MSC_CSW_STATUS_PASSED
  ELSE IF SCSI_CMD_READ_10 = cbw.command /\ ~is_data_in(cbw.dir) THEN MSC_CSW_STATUS_PHASE_ERROR
  ELSE IF SCSI_CMD_WRITE_10 = cbw.command /\ is_data_in(cbw.dir) THEN MSC_CSW_STATUS_PHASE_ERROR
  ELSE IF block_count = 0 THEN MSC_CSW_STATUS_FAILED
  ELSE MSC_CSW_STATUS_PASSED

rdwr10_validate_cmd(cbw) ==
  LET block_count == rdwr10_get_blockcount(cbw) IN
  IF cbw.total_bytes = 0
  THEN IF block_count # 0 THEN MSC_CSW_STATUS_PHASE_ERROR ELSE MSC_CSW_STATUS_PASSED
  ELSE IF SCSI_CMD_READ_10 = cbw.command /\ ~is_data_in(cbw.dir) THEN MSC_CSW_STATUS_PHASE_ERROR
  ELSE IF SCSI_CMD_WRITE_10 = cbw.command /\ is_data_in(cbw.dir) THEN MSC_CSW_STATUS_PHASE_ERROR
  ELSE IF block_count = 0 THEN MSC_CSW_STATUS_FAILED
  ELSE IF cbw.total_bytes \div block_count = 0 THEN MSC_CSW_STATUS_PHASE_ERROR
  ELSE MSC_CSW_STATUS_PASSED

proc_stage_status(M) ==
  IF ~usbd_edpt_stalled(M, M.itf.ep_in)
  THEN IF M.itf.cbw.total_bytes > M.itf.xferred_len /\ is_data_in(M.itf.cbw.dir)
       THEN usbd_edpt_stall(M, M.itf.ep_in)
       ELSE send_csw(M)
  ELSE M

(***************************************************************************)
(* The application behind the weak callbacks.  One handler run consults    *)
(* the application through an answer record app:                           *)
(*   io       what read10/write10/scsi callback returns, relative to the   *)
(*            size it is asked for ("full", "part", "busy", "error",       *)
(*            "async"); "part" is AppShort bytes of a larger request       *)
(*   ok       the result of the bool callback the run reaches              *)
(*            (test_unit_ready, start_stop, prevent_allow_medium_removal,  *)
(*            is_writable) and whether the reported capacity is valid; no  *)
(*            run reaches two of them                                      *)
(***************************************************************************)
IoKinds == {"full", "part", "busy", "error", "async"}
AppShort == CFG_TUD_MSC_EP_BUFSIZE \div 2
AppAnswers == [io : IoKinds, ok : BOOLEAN]

\* no callback invoked
NoCall == [fn |-> "none", lba |-> 0, offset |-> 0, size |-> 0, ret |-> 0]

\* the int32 a read10/write10 callback returns when asked for size bytes
IoResult(kind, size) ==
  CASE kind = "full"  -> size
    [] kind = "part"  -> IF size > AppShort THEN AppShort ELSE size
    [] kind = "busy"  -> TUD_MSC_RET_BUSY
    [] kind = "error" -> TUD_MSC_RET_ERROR
    [] OTHER          -> TUD_MSC_RET_ASYNC

\* the int32 tud_msc_scsi_cb returns (it has no asynchronous completion)
\* "part" with nothing expected by the host: the device has 8 bytes all the same
ScsiResult(kind, size) ==
  CASE kind = "async" -> TUD_MSC_RET_ERROR
    [] kind = "part" /\ size = 0 -> 8
    [] OTHER -> IoResult(kind, size)

\* tu_memcpy_s(buffer, bufsize, resp, resplen) under TU_VERIFY: 0 when it does not fit
copy_response(M, bufsize, resplen, content) ==
  IF resplen > bufsize
  THEN [resplen |-> 0, M |-> M]
  ELSE [resplen |-> resplen, M |-> [M EXCEPT !.epbuf = content]]

\* a bool callback that failed: resplen = -1, default sense if none is set
builtin_failed(M) ==
  [resplen |-> -1,
   M |-> IF M.itf.sense_key = 0 THEN set_sense_medium_not_present(M) ELSE M]

\* proc_builtin_scsi: [resplen, M]
\* proc_builtin_scsi whose REQUEST_SENSE does not clear the sense
proc_builtin_scsi_keeps_sense(M, command, bufsize, app) ==
  CASE command \in {SCSI_CMD_TEST_UNIT_READY, SCSI_CMD_START_STOP_UNIT,
                    SCSI_CMD_PREVENT_ALLOW_MEDIUM_REMOVAL} ->
         IF app.ok THEN [resplen |-> 0, M |-> M] ELSE builtin_failed(M)
    [] command = SCSI_CMD_READ_CAPACITY_10 ->
         IF app.ok THEN copy_response(M, bufsize, 8, BufData) ELSE builtin_failed(M)
    [] command = SCSI_CMD_READ_FORMAT_CAPACITY ->
         IF app.ok THEN copy_response(M, bufsize, 12, BufData) ELSE builtin_failed(M)
    [] command = SCSI_CMD_INQUIRY ->
         [resplen |-> 36, M |-> [M EXCEPT !.epbuf = BufData]]
    [] command = SCSI_CMD_MODE_SENSE_6 ->
         copy_response(M, bufsize, 4, BufData)
    [] command = SCSI_CMD_REQUEST_SENSE ->
         LET r == copy_response(M, bufsize, 18,
                    BufSense(M.itf.sense_key % 16, M.itf.add_sense_code,
                             M.itf.add_sense_qualifier))
         IN r
    [] OTHER -> [resplen |-> -1, M |-> M]

proc_builtin_scsi(M, command, bufsize, app) ==
  CASE command \in {SCSI_CMD_TEST_UNIT_READY, SCSI_CMD_START_STOP_UNIT,
                    SCSI_CMD_PREVENT_ALLOW_MEDIUM_REMOVAL} ->
         IF app.ok THEN [resplen |-> 0, M |-> M] ELSE builtin_failed(M)
    [] command = SCSI_CMD_READ_CAPACITY_10 ->
         IF app.ok THEN copy_response(M, bufsize, 8, BufData) ELSE builtin_failed(M)
    [] command = SCSI_CMD_READ_FORMAT_CAPACITY ->
         IF app.ok THEN copy_response(M, bufsize, 12, BufData) ELSE builtin_failed(M)
    [] command = SCSI_CMD_INQUIRY ->
         [resplen |-> 36, M |-> [M EXCEPT !.epbuf = BufData]]
    [] command = SCSI_CMD_MODE_SENSE_6 ->
         copy_response(M, bufsize, 4, BufData)
    [] command = SCSI_CMD_REQUEST_SENSE ->
         LET r == copy_response(M, bufsize, 18,
                    BufSense(M.itf.sense_key % 16, M.itf.add_sense_code,
                             M.itf.add_sense_qualifier))
         IN IF r.resplen = 0 THEN r
            ELSE [resplen |-> r.resplen, M |-> tud_msc_set_sense(r.M, 0, 0, 0)]
    [] OTHER -> [resplen |-> -1, M |-> M]

proc_read_io_data(M, nbytes) ==
  IF nbytes > 0
  THEN usbd_edpt_xfer([M EXCEPT !.epbuf = BufData], M.itf.ep_in, ToU16(nbytes))
  ELSE CASE nbytes = TUD_MSC_RET_ERROR ->
              fail_scsi_op(set_sense_medium_not_present(M), MSC_CSW_STATUS_FAILED)
         [] nbytes = TUD_MSC_RET_BUSY ->
              dcd_event_xfer_complete(M, M.itf.ep_in, 0)
         [] OTHER -> M

\* read10_request without the cap at the bytes that remain
read10_request_uncapped(M) == CFG_TUD_MSC_EP_BUFSIZE

\* the size proc_read10_cmd asks the application for
read10_request(M) ==
  tu_min32(CFG_TUD_MSC_EP_BUFSIZE, Sub32(M.itf.cbw.total_bytes, M.itf.xferred_len))

\* tud_msc_read10_cb(lun, lba, offset, buffer, nbytes) and what it returned
read10_call(M, ret) ==
  LET block_sz == rdwr10_get_blocksize(M.itf.cbw) IN
  [fn |-> "read10",
   lba |-> Add32(rdwr10_get_lba(M.itf.cbw), M.itf.xferred_len \div block_sz),
   offset |-> M.itf.xferred_len % block_sz,
   size |-> read10_request(M),
   ret |-> ret]

proc_read10_cmd(M, app) ==
  LET nbytes == IoResult(app.io, read10_request(M))
      M1 == [M EXCEPT !.itf.pending_io = 1, !.cb = read10_call(M, nbytes)]
  IN IF nbytes # TUD_MSC_RET_ASYNC
     THEN proc_read_io_data([M1 EXCEPT !.itf.pending_io = 0], nbytes)
     ELSE [M1 EXCEPT !.io = read10_request(M)]

\* proc_write10_cmd without the write-protect check
proc_write10_cmd_unchecked(M, app) ==
  usbd_edpt_xfer(M, M.itf.ep_out,
    ToU16(tu_min32(CFG_TUD_MSC_EP_BUFSIZE,
                   Sub32(M.itf.cbw.total_bytes, M.itf.xferred_len))))

proc_write10_cmd(M, app) ==
  IF ~app.ok
  THEN fail_scsi_op(tud_msc_set_sense(M, SCSI_SENSE_DATA_PROTECT, 39, 0),
                    MSC_CSW_STATUS_FAILED)
  ELSE usbd_edpt_xfer(M, M.itf.ep_out,
         ToU16(tu_min32(CFG_TUD_MSC_EP_BUFSIZE,
                        Sub32(M.itf.cbw.total_bytes, M.itf.xferred_len))))

proc_write_io_data(M, xferred_bytes, nbytes, app) ==
  IF nbytes < 0
  THEN IF nbytes = TUD_MSC_RET_ERROR
       THEN fail_scsi_op(set_sense_medium_not_present(M), MSC_CSW_STATUS_FAILED)
       ELSE M
  ELSE IF nbytes < xferred_bytes
       THEN \* left over bytes are moved to the front of the buffer and the
            \* completion is faked again with the left over count
            dcd_event_xfer_complete(M, M.itf.ep_out, xferred_bytes - nbytes)
       ELSE LET M1 == [M EXCEPT !.itf.xferred_len = Add32(@, xferred_bytes)]
            IN IF M1.itf.xferred_len >= M1.itf.total_len
               THEN [M1 EXCEPT !.itf.stage = MSC_STAGE_STATUS]
               ELSE proc_write10_cmd(M1, app)

\* tud_msc_write10_cb(lun, lba, offset, buffer, xferred_bytes) and what it returned
write10_call(M, xferred_bytes, ret) ==
  LET block_sz == rdwr10_get_blocksize(M.itf.cbw) IN
  [fn |-> "write10",
   lba |-> Add32(rdwr10_get_lba(M.itf.cbw), M.itf.xferred_len \div block_sz),
   offset |-> M.itf.xferred_len % block_sz,
   size |-> xferred_bytes,
   ret |-> ret]

proc_write10_host_data(M, xferred_bytes, app) ==
  LET nbytes == IoResult(app.io, xferred_bytes)
      M1 == [M EXCEPT !.itf.pending_io = 1, !.cb = write10_call(M, xferred_bytes, nbytes)]
  IN IF nbytes # TUD_MSC_RET_ASYNC
     THEN proc_write_io_data([M1 EXCEPT !.itf.pending_io = 0], xferred_bytes, nbytes, app)
     ELSE [M1 EXCEPT !.io = xferred_bytes]

\* tud_msc_scsi_cb(lun, command, buffer, bufsize) and what it returned
scsi_call(bufsize, ret) == [fn |-> "scsi", lba |-> 0, offset |-> 0, size |-> bufsize, ret |-> ret]

\* the first four bytes of the endpoint buffer, read as the CBW signature
buf_signature(buf) ==
  CASE buf.kind = "cbw" -> MSC_CBW_SIGNATURE
    [] buf.kind = "csw" -> MSC_CSW_SIGNATURE
    [] OTHER -> 0

\* mscd_xfer_cb, case MSC_STAGE_CMD: parse the command and prepare the data stage
proc_cbw(M, app) ==
  LET cbw == M.itf.cbw IN
  IF cbw.command = SCSI_CMD_READ_10 \/ cbw.command = SCSI_CMD_WRITE_10
  THEN LET status == rdwr10_validate_cmd(cbw) IN
       IF status # MSC_CSW_STATUS_PASSED THEN fail_scsi_op(M, status)
       ELSE IF cbw.total_bytes # 0
            THEN IF cbw.command = SCSI_CMD_READ_10
                 THEN proc_read10_cmd(M, app)
                 ELSE proc_write10_cmd(M, app)
            ELSE [M EXCEPT !.itf.stage = MSC_STAGE_STATUS]
  ELSE IF cbw.total_bytes > 0 /\ ~is_data_in(cbw.dir)
       THEN IF cbw.total_bytes > CFG_TUD_MSC_EP_BUFSIZE
            THEN fail_scsi_op(M, MSC_CSW_STATUS_FAILED)
            ELSE usbd_edpt_xfer(M, M.itf.ep_out, ToU16(M.itf.total_len))
       ELSE LET b == proc_builtin_scsi(M, cbw.command, CFG_TUD_MSC_EP_BUFSIZE, app)
                \* tud_msc_scsi_cb is invoked if the command is not built in
                invoke == b.resplen < 0 /\ b.M.itf.sense_key = 0
                resplen == IF invoke
                           THEN ScsiResult(app.io, ToU16(M.itf.total_len))
                           ELSE b.resplen
                M0 == IF invoke
                      THEN [b.M EXCEPT !.cb = scsi_call(ToU16(M.itf.total_len), resplen)]
                      ELSE b.M
                M1 == IF invoke /\ resplen >= 0
                      THEN [M0 EXCEPT !.epbuf = BufData]
                      ELSE M0
            IN IF resplen < 0 THEN fail_scsi_op(M1, MSC_CSW_STATUS_FAILED)
               ELSE IF resplen = 0
                    THEN IF cbw.total_bytes # 0
                         THEN fail_scsi_op(M1, MSC_CSW_STATUS_FAILED)
                         ELSE [M1 EXCEPT !.itf.stage = MSC_STAGE_STATUS]
                    ELSE IF cbw.total_bytes = 0
                         THEN fail_scsi_op(M1, MSC_CSW_STATUS_FAILED)
                         ELSE LET M2 == [M1 EXCEPT !.itf.total_len =
                                           tu_min32(resplen, cbw.total_bytes)]
                              IN usbd_edpt_xfer(M2, M2.itf.ep_in, ToU16(M2.itf.total_len))

\* reject_cbw with the stall of bulk IN left out
reject_cbw_out_only(M) ==
  usbd_edpt_stall([M EXCEPT !.itf.stage = MSC_STAGE_NEED_RESET], M.itf.ep_out)

\* mscd_xfer_cb, case MSC_STAGE_CMD, the CBW is not valid: stall both endpoints
\* until reset recovery
reject_cbw(M) ==
  usbd_edpt_stall(
    usbd_edpt_stall([M EXCEPT !.itf.stage = MSC_STAGE_NEED_RESET], M.itf.ep_in),
    M.itf.ep_out)

\* mscd_xfer_cb, case MSC_STAGE_CMD: the CBW is copied from the endpoint
\* buffer, the CSW and the counters are prepared
store_cbw(M) ==
  LET cbw == M.epbuf.cbw IN
  [M EXCEPT !.itf.cbw = cbw,
            !.itf.csw = [signature |-> MSC_CSW_SIGNATURE,
                         tag |-> cbw.tag,
                         data_residue |-> 0,
                         status |-> MSC_CSW_STATUS_PASSED],
            !.itf.stage = MSC_STAGE_DATA,
            !.itf.total_len = cbw.total_bytes,
            !.itf.xferred_len = 0]

\* mscd_xfer_cb, case MSC_STAGE_CMD
xfer_cb_cmd(M, ep_addr, xferred_bytes, app) ==
  IF ep_addr # M.itf.ep_out THEN M
  ELSE IF ~(xferred_bytes = SIZEOF_CBW /\ buf_signature(M.epbuf) = MSC_CBW_SIGNATURE)
       THEN reject_cbw(M)
       ELSE proc_cbw(store_cbw(M), app)

\* mscd_xfer_cb, case MSC_STAGE_DATA
xfer_cb_data(M, ep_addr, xferred_bytes, app) ==
  IF xferred_bytes > CFG_TUD_MSC_EP_BUFSIZE THEN M
  ELSE IF M.itf.cbw.command = SCSI_CMD_READ_10
       THEN LET M1 == [M EXCEPT !.itf.xferred_len = Add32(@, xferred_bytes)]
            IN IF M1.itf.xferred_len >= M1.itf.total_len
               THEN [M1 EXCEPT !.itf.stage = MSC_STAGE_STATUS]
               ELSE proc_read10_cmd(M1, app)
       ELSE IF M.itf.cbw.command = SCSI_CMD_WRITE_10
            THEN proc_write10_host_data(M, xferred_bytes, app)
            ELSE LET M0 == [M EXCEPT !.itf.xferred_len = Add32(@, xferred_bytes)]
                     cb_result == ScsiResult(app.io, ToU16(M0.itf.total_len))
                     M1 == IF ~is_data_in(M0.itf.cbw.dir)
                           THEN [M0 EXCEPT !.cb = scsi_call(ToU16(M0.itf.total_len), cb_result)]
                           ELSE M0
                     M2 == IF ~is_data_in(M1.itf.cbw.dir) /\ cb_result < 0
                           THEN fail_scsi_op(M1, MSC_CSW_STATUS_FAILED)
                           ELSE M1
                 IN IF M2.itf.xferred_len >= M2.itf.total_len
                    THEN [M2 EXCEPT !.itf.stage = MSC_STAGE_STATUS]
                    ELSE M2

\* xfer_cb_status_sent without the check that the completion is the CSW's
xfer_cb_status_sent_any(M, ep_addr, xferred_bytes) == prepare_cbw(M)

\* mscd_xfer_cb, case MSC_STAGE_STATUS_SENT
xfer_cb_status_sent(M, ep_addr, xferred_bytes) ==
  IF ep_addr = M.itf.ep_in /\ xferred_bytes = SIZEOF_CSW
  THEN prepare_cbw(M)
  ELSE M

mscd_xfer_cb(M, ep_addr, xferred_bytes, app) ==
  LET M1 == CASE M.itf.stage = MSC_STAGE_CMD -> xfer_cb_cmd(M, ep_addr, xferred_bytes, app)
              [] M.itf.stage = MSC_STAGE_DATA -> xfer_cb_data(M, ep_addr, xferred_bytes, app)
              [] M.itf.stage = MSC_STAGE_STATUS_SENT -> xfer_cb_status_sent(M, ep_addr, xferred_bytes)
              [] OTHER -> M
  IN IF M1.itf.stage = MSC_STAGE_STATUS THEN proc_stage_status(M1) ELSE M1

\* proc_async_io_done without the check of pending_io
proc_async_io_done_unguarded(M, nbytes, app) ==
  LET M0 == [M EXCEPT !.itf.pending_io = 0]
      M1 == CASE M.itf.cbw.command = SCSI_CMD_READ_10 -> proc_read_io_data(M0, nbytes)
              [] M.itf.cbw.command = SCSI_CMD_WRITE_10 ->
                   proc_write_io_data(M0, nbytes % U32, nbytes, app)
              [] OTHER -> M0
  IN IF M1.itf.stage = MSC_STAGE_STATUS THEN proc_stage_status(M1) ELSE M1

proc_async_io_done(M, nbytes, app) ==
  IF M.itf.pending_io = 0 THEN M
  ELSE LET M0 == [M EXCEPT !.itf.pending_io = 0]
           M1 == CASE M.itf.cbw.command = SCSI_CMD_READ_10 -> proc_read_io_data(M0, nbytes)
                   [] M.itf.cbw.command = SCSI_CMD_WRITE_10 ->
                        proc_write_io_data(M0, nbytes % U32, nbytes, app)
                   [] OTHER -> M0
       IN IF M1.itf.stage = MSC_STAGE_STATUS THEN proc_stage_status(M1) ELSE M1

\* tud_msc_async_io_done clearing pending_io in the caller's context
tud_msc_async_io_done_clears(M, bytes_io) ==
  IF M.itf.pending_io = 0 THEN M
  ELSE usbd_defer_func([M EXCEPT !.itf.pending_io = 0],
                       IF bytes_io = 0 THEN TUD_MSC_RET_ERROR ELSE bytes_io)

tud_msc_async_io_done(M, bytes_io) ==
  IF M.itf.pending_io = 0 THEN M
  ELSE usbd_defer_func(M, IF bytes_io = 0 THEN TUD_MSC_RET_ERROR ELSE bytes_io)

mscd_reset(M) == [M EXCEPT !.itf = ZeroItf]

mscd_open(M) ==
  LET M1 == [M EXCEPT !.itf.ep_out = EP_OUT_ADDR, !.itf.ep_in = EP_IN_ADDR,
                      !.ep = [a \in Bulk |-> EpIdle]]
  IN prepare_cbw(M1)

proc_bot_reset(M) ==
  [M EXCEPT !.itf.stage = MSC_STAGE_CMD, !.itf.total_len = 0, !.itf.xferred_len = 0,
            !.itf.sense_key = 0, !.itf.add_sense_code = 0, !.itf.add_sense_qualifier = 0]

\* mscd_control_xfer_cb at CONTROL_STAGE_SETUP
mscd_control_xfer_cb(M, req) ==
  CASE req \in {"clear_halt_out", "clear_halt_in"} ->
         LET ep_addr == IF req = "clear_halt_in" THEN EP_IN_ADDR ELSE EP_OUT_ADDR IN
         IF M.itf.stage = MSC_STAGE_NEED_RESET
         THEN usbd_edpt_stall(M, ep_addr)
         ELSE IF ep_addr = M.itf.ep_in
              THEN IF M.itf.stage = MSC_STAGE_STATUS THEN send_csw(M) ELSE M
              ELSE IF ep_addr = M.itf.ep_out /\ M.itf.stage = MSC_STAGE_CMD
                      /\ usbd_edpt_ready(M, M.itf.ep_out)
                   THEN prepare_cbw(M)
                   ELSE M
    [] req = "msc_reset" -> proc_bot_reset(M)
    [] OTHER -> M

\* the device core's process_control_request: SET_CONFIGURATION opens the
\* driver, Clear-Feature(ENDPOINT_HALT) clears the stall and then invokes the
\* driver, a class request to the interface invokes the driver
process_control_request(M, req) ==
  CASE req = "set_configuration" -> IF M.itf.ep_in = 0 THEN mscd_open(M) ELSE M
    [] M.itf.ep_in = 0 -> M
    [] req = "clear_halt_in" ->
         mscd_control_xfer_cb(usbd_edpt_clear_stall(M, EP_IN_ADDR), req)
    [] req = "clear_halt_out" ->
         mscd_control_xfer_cb(usbd_edpt_clear_stall(M, EP_OUT_ADDR), req)
    [] OTHER -> mscd_control_xfer_cb(M, req)

(***************************************************************************)
(* The STM32 FSDev controller driver                                       *)
(* (src/portable/st/stm32_fsdev/dcd_stm32_fsdev.c).                        *)
(*                                                                         *)
(* Each C function is an operator from a controller record D (allocator    *)
(* cursor, slot table, transfer contexts, endpoint registers, buffer       *)
(* description table, events reported and value returned by the call) to   *)
(* the record after the call.                                              *)
(***************************************************************************)
\* hardware endpoint registers of the peripheral (8 on the chip)
FSDEV_EP_COUNT == 3
\* logical endpoint numbers the device core keeps a transfer context for
CFG_TUD_ENDPPOINT_MAX == 3
\* bytes of packet memory
FSDEV_PMA_SIZE == 512
FSDEV_BTABLE_BASE == 0
\* wMaxPacketSize of the control endpoint (8, 16, 32 or 64 at full speed)
CFG_TUD_ENDPOINT0_SIZE == 8

\* tusb_xfer_type_t, the 2-bit bmAttributes.xfer of an endpoint descriptor
TUSB_XFER == [CONTROL |-> 0, ISOCHRONOUS |-> 1, BULK |-> 2, INTERRUPT |-> 3]
\* EP_TYPE field of an endpoint register
USB_EP == [BULK |-> 0, CONTROL |-> 1, ISOCHRONOUS |-> 2, INTERRUPT |-> 3]
\* STAT_TX / STAT_RX field of an endpoint register
EP_STAT == [DIS |-> 0, STALL |-> 1, NAK |-> 2, VALID |-> 3]
\* buffer index of a single-buffered endpoint in its BTABLE entry
BTABLE_BUF == [TX |-> 0, RX |-> 1]
\* tusb_dir_t: index of allocated[] and of xfer_status[][]
TUSB_DIR_OUT == 0
TUSB_DIR_IN == 1

Slots == 0 .. (FSDEV_EP_COUNT - 1)
tu_edpt_number(ep_addr) == ep_addr % 128
tu_edpt_dir(ep_addr) == (ep_addr \div 128) % 2
tu_min16(a, b) == IF a < b THEN a ELSE b

\* exclusive or of two 2-bit fields
Xor2(a, b) ==
  LET x(p, q) == (p + q) % 2
  IN 2 * x(a \div 2, b \div 2) + x(a % 2, b % 2)

\* block-size table of the RX count field: 2-byte blocks up to 62 bytes,
\* 32-byte blocks above
pma_align_buffer_size(len) ==
  IF len > 62 THEN ((len + 31) \div 32) * 32 ELSE ((len + 1) \div 2) * 2

ZeroReg == [ea |-> 0, type |-> 0, stat_tx |-> 0, stat_rx |-> 0, dtog_tx |-> 0,
            dtog_rx |-> 0, ctr_tx |-> 0, ctr_rx |-> 0, setup |-> 0]
ZeroXfer == [total_len |-> 0, queued_len |-> 0, max_packet_size |-> 0, ep_idx |-> 0,
             iso_in_sending |-> FALSE]
FreeSlot == [ep_num |-> 255, ep_type |-> 255, allocated |-> [d \in 0..1 |-> FALSE]]
ZeroBtable == [addr |-> 0, count |-> 0, bufsize |-> 0]
\* ISTR and CNTR after dcd_init, and the interrupt handler when it is not running
ZeroIstr == [sof |-> 0, reset |-> 0, wkup |-> 0, susp |-> 0, esof |-> 0]
ZeroCntr == [resume |-> 0, fsusp |-> 0, lpmode |-> 0]
IsrIdle == [pc |-> "idle", int_status |-> [wkup |-> 0, susp |-> 0, esof |-> 0]]

\* reg & ~USB_EPREG_MASK: the toggle bits of a register value
ToggleBits(r) ==
  [ZeroReg EXCEPT !.stat_tx = r.stat_tx, !.stat_rx = r.stat_rx,
                  !.dtog_tx = r.dtog_tx, !.dtog_rx = r.dtog_rx]

\* a write of value w to endpoint register i: address and type are stored,
\* a 1 flips a status or toggle bit, a 0 clears a CTR bit, SETUP is read-only
pcd_set_endpoint(D, i, w) ==
  [D EXCEPT !.reg[i] =
     [ea |-> w.ea, type |-> w.type,
      stat_tx |-> Xor2(@.stat_tx, w.stat_tx), stat_rx |-> Xor2(@.stat_rx, w.stat_rx),
      dtog_tx |-> (@.dtog_tx + w.dtog_tx) % 2, dtog_rx |-> (@.dtog_rx + w.dtog_rx) % 2,
      ctr_tx |-> @.ctr_tx * w.ctr_tx, ctr_rx |-> @.ctr_rx * w.ctr_rx,
      setup |-> @.setup]]

ep_add_tx_status(r, state) == [r EXCEPT !.stat_tx = Xor2(@, state)]
ep_add_rx_status(r, state) == [r EXCEPT !.stat_rx = Xor2(@, state)]
ep_add_tx_dtog(r, state) == [r EXCEPT !.dtog_tx = (@ + state) % 2]
ep_add_rx_dtog(r, state) == [r EXCEPT !.dtog_rx = (@ + state) % 2]

\* the register value with the toggle bits masked and both CTR bits written 1
KeepBits(r) == [ZeroReg EXCEPT !.ea = r.ea, !.type = r.type, !.ctr_tx = 1, !.ctr_rx = 1]

pcd_set_ep_tx_status(D, i, state) ==
  pcd_set_endpoint(D, i, [KeepBits(D.reg[i]) EXCEPT !.stat_tx = Xor2(D.reg[i].stat_tx, state)])
pcd_set_ep_rx_status(D, i, state) ==
  pcd_set_endpoint(D, i, [KeepBits(D.reg[i]) EXCEPT !.stat_rx = Xor2(D.reg[i].stat_rx, state)])
pcd_clear_tx_ep_ctr(D, i) ==
  pcd_set_endpoint(D, i, [KeepBits(D.reg[i]) EXCEPT !.ctr_tx = 0])
pcd_clear_rx_ep_ctr(D, i) ==
  pcd_set_endpoint(D, i, [KeepBits(D.reg[i]) EXCEPT !.ctr_rx = 0])
pcd_set_eptype(D, i, type) ==
  pcd_set_endpoint(D, i, [KeepBits(D.reg[i]) EXCEPT !.type = type])

btable_set_addr(D, i, buf_id, addr) ==
  [D EXCEPT !.btable[i][buf_id].addr = addr, !.set[i][buf_id] = TRUE]
btable_set_count(D, i, buf_id, byte_count) ==
  [D EXCEPT !.btable[i][buf_id].count = byte_count]
btable_set_rx_bufsize(D, i, buf_id, size) ==
  [D EXCEPT !.btable[i][buf_id].bufsize = size]

fsdev_event_xfer_complete(D, ep_addr, len) ==
  [D EXCEPT !.ev = Append(@, [type |-> "xfer", ep |-> ep_addr, len |-> len])]
fsdev_event_setup_received(D) ==
  [D EXCEPT !.ev = Append(@, [type |-> "setup", ep |-> 0, len |-> 8])]

\* the value returned is the 32-bit addr as its two halves; TU_ASSERT returns
\* 0xFFFF after the cursor was advanced
dcd_pma_alloc(D, len, dbuf) ==
  LET aligned_len == pma_align_buffer_size(len)
      addr == D.ep_buf_ptr
      p1 == ToU16(addr + aligned_len)
      p2 == IF dbuf THEN ToU16(p1 + aligned_len) ELSE p1
  IN [D EXCEPT !.ep_buf_ptr = p2,
               !.ret = IF p2 <= FSDEV_PMA_SIZE
                       THEN [lo |-> addr, hi |-> IF dbuf THEN p1 ELSE 0]
                       ELSE [lo |-> 65535, hi |-> 0]]

\* the slot the loop stops at: the first one that holds the endpoint already
\* or that may take it; TU_ASSERT(0) returns false, slot 0 as a uint8_t
dcd_ep_alloc(D, ep_addr, ep_type) ==
  LET epnum == tu_edpt_number(ep_addr)
      dir == tu_edpt_dir(ep_addr)
      s == D.ep_alloc_status
      Already(i) == s[i].allocated[dir] /\ s[i].ep_type = ep_type /\ s[i].ep_num = epnum
      Free(i) == /\ ~s[i].allocated[dir]
                 /\ (ep_type # TUSB_XFER.ISOCHRONOUS \/ ~s[i].allocated[1 - dir])
                 /\ (s[i].ep_num = 255 \/ s[i].ep_num = epnum)
                 /\ (s[i].ep_type = 255 \/ s[i].ep_type = ep_type)
      hits == {i \in Slots : Already(i) \/ Free(i)}
  IN IF hits = {} THEN [D EXCEPT !.ret = 0]
     ELSE LET i == CHOOSE j \in hits : \A k \in hits : j <= k
          IN IF Already(i) THEN [D EXCEPT !.ret = i]
             ELSE [D EXCEPT !.ep_alloc_status[i] =
                              [ep_num |-> epnum, ep_type |-> ep_type,
                               allocated |-> [@.allocated EXCEPT ![dir] = TRUE]],
                            !.ret = i]

edpt0_open(D) ==
  LET A1 == dcd_ep_alloc(D, 0, TUSB_XFER.CONTROL)
      A2 == dcd_ep_alloc(A1, 128, TUSB_XFER.CONTROL)
      X == [A2 EXCEPT !.xfer_status[0][0].max_packet_size = CFG_TUD_ENDPOINT0_SIZE,
                      !.xfer_status[0][0].ep_idx = 0,
                      !.xfer_status[0][1].max_packet_size = CFG_TUD_ENDPOINT0_SIZE,
                      !.xfer_status[0][1].ep_idx = 0]
      P0 == dcd_pma_alloc(X, CFG_TUD_ENDPOINT0_SIZE, FALSE)
      P1 == dcd_pma_alloc(P0, CFG_TUD_ENDPOINT0_SIZE, FALSE)
      B == btable_set_addr(btable_set_addr(P1, 0, BTABLE_BUF.RX, P0.ret.lo),
                           0, BTABLE_BUF.TX, P1.ret.lo)
      r0 == [ToggleBits(B.reg[0]) EXCEPT !.type = USB_EP.CONTROL, !.ctr_rx = 1, !.ctr_tx = 1]
      r1 == ep_add_rx_status(ep_add_tx_status(r0, EP_STAT.NAK), EP_STAT.NAK)
  IN pcd_set_endpoint(B, 0, r1)

handle_bus_reset(D) ==
  edpt0_open([D EXCEPT !.ep_alloc_status = [i \in Slots |-> FreeSlot],
                       !.set = [i \in Slots |-> [b \in 0..1 |-> FALSE]],
                       !.ep_buf_ptr = FSDEV_BTABLE_BASE + 8 * FSDEV_EP_COUNT])

dcd_edpt_open(D, ep_addr, xfer, packet_size) ==
  LET A == dcd_ep_alloc(D, ep_addr, xfer)
      ep_idx == A.ret
      dir == tu_edpt_dir(ep_addr)
      epnum == tu_edpt_number(ep_addr)
      r0 == [ToggleBits(A.reg[ep_idx]) EXCEPT
               !.ea = epnum, !.ctr_rx = 1, !.ctr_tx = 1,
               !.type = IF xfer = TUSB_XFER.BULK THEN USB_EP.CONTROL ELSE USB_EP.INTERRUPT]
      P == dcd_pma_alloc(A, packet_size, FALSE)
      B == btable_set_addr(P, ep_idx,
             IF dir = TUSB_DIR_IN THEN BTABLE_BUF.TX ELSE BTABLE_BUF.RX, P.ret.lo)
      X == [B EXCEPT !.xfer_status[epnum][dir].max_packet_size = packet_size,
                     !.xfer_status[epnum][dir].ep_idx = ep_idx]
      r1 == IF dir = TUSB_DIR_IN
            THEN [ep_add_tx_dtog(ep_add_tx_status(r0, EP_STAT.NAK), 0)
                    EXCEPT !.stat_rx = 0, !.dtog_rx = 0]
            ELSE [ep_add_rx_dtog(ep_add_rx_status(r0, EP_STAT.NAK), 0)
                    EXCEPT !.stat_tx = 0, !.dtog_tx = 0]
  IN IF xfer \notin {TUSB_XFER.BULK, TUSB_XFER.INTERRUPT}
     THEN [A EXCEPT !.ret = FALSE]
     ELSE [pcd_set_endpoint(X, ep_idx, r1) EXCEPT !.ret = TRUE]

dcd_edpt_close_all(D) ==
  LET R == [D EXCEPT !.reg = [i \in Slots |-> IF i = 0 THEN @[i]
                                             ELSE pcd_set_endpoint(D, i, ZeroReg).reg[i]]]
  IN [R EXCEPT !.ep_alloc_status = [i \in Slots |-> IF i = 0 THEN @[i] ELSE FreeSlot],
               !.set = [i \in Slots |-> IF i = 0 THEN @[i] ELSE [b \in 0..1 |-> FALSE]],
               !.ep_buf_ptr = FSDEV_BTABLE_BASE + 8 * CFG_TUD_ENDPPOINT_MAX
                              + 2 * CFG_TUD_ENDPOINT0_SIZE]

\* FSDEV_PMA_SIZE <= 1024: both BTABLE entries get the first buffer
dcd_edpt_iso_alloc(D, ep_addr, largest_packet_size) ==
  LET A == dcd_ep_alloc(D, ep_addr, TUSB_XFER.ISOCHRONOUS)
      ep_idx == A.ret
      P == dcd_pma_alloc(A, largest_packet_size, TRUE)
      pma_addr2 == IF FSDEV_PMA_SIZE > 1024 THEN P.ret.hi ELSE P.ret.lo
      B == btable_set_addr(btable_set_addr(P, ep_idx, 0, P.ret.lo), ep_idx, 1, pma_addr2)
      X == [B EXCEPT !.xfer_status[tu_edpt_number(ep_addr)][tu_edpt_dir(ep_addr)].ep_idx
                       = ep_idx]
  IN [pcd_set_eptype(X, ep_idx, USB_EP.ISOCHRONOUS) EXCEPT !.ret = TRUE]

dcd_edpt_iso_activate(D, ep_addr, packet_size) ==
  LET epnum == tu_edpt_number(ep_addr)
      dir == tu_edpt_dir(ep_addr)
      ep_idx == D.xfer_status[epnum][dir].ep_idx
      X == [D EXCEPT !.xfer_status[epnum][dir].max_packet_size = packet_size]
      r0 == [ToggleBits(X.reg[0]) EXCEPT
               !.ea = epnum, !.type = USB_EP.ISOCHRONOUS, !.ctr_rx = 1, !.ctr_tx = 1]
      r1 == ep_add_rx_status(ep_add_tx_status(r0, EP_STAT.DIS), EP_STAT.DIS)
      r2 == IF dir = TUSB_DIR_IN THEN ep_add_rx_dtog(r1, 1) ELSE ep_add_tx_dtog(r1, 1)
  IN [pcd_set_endpoint(X, ep_idx, r2) EXCEPT !.ret = TRUE]

\* dcd_transmit_packet without the clamp to max_packet_size
dcd_transmit_packet_unclamped(D, epnum, ep_ix) ==
  LET xfer == D.xfer_status[epnum][TUSB_DIR_IN]
      len == ToU16(xfer.total_len - xfer.queued_len + U16)
      C == btable_set_count(D, ep_ix, BTABLE_BUF.TX, len)
      Q == [C EXCEPT !.xfer_status[epnum][TUSB_DIR_IN].queued_len = ToU16(@ + len)]
  IN pcd_set_ep_tx_status(Q, ep_ix, EP_STAT.VALID)

\* lines 756-778: the packet is loaded, its count written, queued_len advanced
dcd_transmit_packet_load(D, epnum, ep_ix) ==
  LET xfer == D.xfer_status[epnum][TUSB_DIR_IN]
      rem == ToU16(xfer.total_len - xfer.queued_len + U16)
      len == IF rem > xfer.max_packet_size THEN xfer.max_packet_size ELSE rem
      is_iso == D.reg[ep_ix].type = USB_EP.ISOCHRONOUS
      buf_id == IF is_iso THEN D.reg[ep_ix].dtog_tx ELSE BTABLE_BUF.TX
      C == btable_set_count(D, ep_ix, buf_id, len)
  IN [C EXCEPT !.xfer_status[epnum][TUSB_DIR_IN].queued_len = ToU16(@ + len)]

\* lines 780-785, with the interrupt disabled: STAT_TX = VALID, then the flag
dcd_transmit_packet_arm(D, epnum, ep_ix) ==
  LET is_iso == D.reg[ep_ix].type = USB_EP.ISOCHRONOUS
      V == pcd_set_ep_tx_status(D, ep_ix, EP_STAT.VALID)
  IN IF is_iso THEN [V EXCEPT !.xfer_status[epnum][TUSB_DIR_IN].iso_in_sending = TRUE]
     ELSE V

dcd_transmit_packet(D, epnum, ep_ix) ==
  dcd_transmit_packet_arm(dcd_transmit_packet_load(D, epnum, ep_ix), epnum, ep_ix)

edpt_xfer(D, ep_addr) ==
  LET epnum == tu_edpt_number(ep_addr)
      dir == tu_edpt_dir(ep_addr)
      xfer == D.xfer_status[epnum][dir]
      ep_idx == xfer.ep_idx
      cnt == tu_min16(xfer.total_len, xfer.max_packet_size)
  IN IF dir = TUSB_DIR_IN THEN [dcd_transmit_packet(D, epnum, ep_idx) EXCEPT !.ret = TRUE]
     ELSE LET B == IF D.reg[ep_idx].type = USB_EP.ISOCHRONOUS
                   THEN btable_set_rx_bufsize(btable_set_rx_bufsize(D, ep_idx, 0, cnt),
                                              ep_idx, 1, cnt)
                   ELSE btable_set_rx_bufsize(D, ep_idx, BTABLE_BUF.RX, cnt)
          IN [pcd_set_ep_rx_status(B, ep_idx, EP_STAT.VALID) EXCEPT !.ret = TRUE]

fsdev_edpt_xfer(D, ep_addr, total_bytes) ==
  edpt_xfer([D EXCEPT
     !.xfer_status[tu_edpt_number(ep_addr)][tu_edpt_dir(ep_addr)].total_len = total_bytes,
     !.xfer_status[tu_edpt_number(ep_addr)][tu_edpt_dir(ep_addr)].queued_len = 0],
    ep_addr)

fsdev_edpt_stall(D, ep_addr) ==
  LET ep_idx == D.xfer_status[tu_edpt_number(ep_addr)][tu_edpt_dir(ep_addr)].ep_idx
  IN IF tu_edpt_dir(ep_addr) = TUSB_DIR_IN
     THEN pcd_set_ep_tx_status(D, ep_idx, EP_STAT.STALL)
     ELSE pcd_set_ep_rx_status(D, ep_idx, EP_STAT.STALL)

\* dcd_ep_ctr_tx_handler without the iso_in_sending test of line 309
dcd_ep_ctr_tx_handler_no_spurious_test(D, EPindex) ==
  LET wEPRegVal == D.reg[EPindex]
      epnum == wEPRegVal.ea
      ep_addr == wEPRegVal.ea + 128
      C == pcd_clear_tx_ep_ctr(D, EPindex)
      xfer == C.xfer_status[epnum][TUSB_DIR_IN]
      is_iso == wEPRegVal.type = USB_EP.ISOCHRONOUS
      I == IF is_iso
           THEN btable_set_count(
                  [C EXCEPT !.xfer_status[epnum][TUSB_DIR_IN].iso_in_sending = FALSE],
                  EPindex, 1 - wEPRegVal.dtog_tx, 0)
           ELSE C
  IN IF wEPRegVal.ctr_tx = 0 THEN D
     ELSE IF xfer.total_len # xfer.queued_len THEN dcd_transmit_packet(I, epnum, EPindex)
     ELSE fsdev_event_xfer_complete(I, ep_addr, xfer.total_len)

dcd_ep_ctr_tx_handler(D, EPindex) ==
  LET wEPRegVal == D.reg[EPindex]
      epnum == wEPRegVal.ea
      ep_addr == wEPRegVal.ea + 128
      C == pcd_clear_tx_ep_ctr(D, EPindex)
      xfer == C.xfer_status[epnum][TUSB_DIR_IN]
      is_iso == wEPRegVal.type = USB_EP.ISOCHRONOUS
      I == IF is_iso
           THEN btable_set_count(
                  [C EXCEPT !.xfer_status[epnum][TUSB_DIR_IN].iso_in_sending = FALSE],
                  EPindex, 1 - wEPRegVal.dtog_tx, 0)
           ELSE C
  IN IF wEPRegVal.ctr_tx = 0 THEN D
     ELSE IF is_iso /\ ~xfer.iso_in_sending THEN C
     ELSE IF xfer.total_len # xfer.queued_len THEN dcd_transmit_packet(I, epnum, EPindex)
     ELSE fsdev_event_xfer_complete(I, ep_addr, xfer.total_len)

\* dcd_ep_ctr_rx_handler writing the register back after a SETUP packet
\* without first folding the wanted status and toggle bits into the value
dcd_ep_ctr_rx_handler_plain_write(D, EPindex) ==
  LET wEPRegVal == D.reg[EPindex]
      ep_addr == wEPRegVal.ea
      S == IF D.btable[EPindex][BTABLE_BUF.RX].count = 8
           THEN pcd_set_endpoint(fsdev_event_setup_received(D), 0,
                                 [wEPRegVal EXCEPT !.ctr_rx = 1, !.ctr_tx = 1])
           ELSE D
      C == IF ep_addr # 0 THEN pcd_clear_rx_ep_ctr(D, EPindex) ELSE D
      count == C.btable[EPindex][BTABLE_BUF.RX].count
      Q == [C EXCEPT !.xfer_status[ep_addr][TUSB_DIR_OUT].queued_len = ToU16(@ + count)]
      xfer == Q.xfer_status[ep_addr][TUSB_DIR_OUT]
      cnt == tu_min16(ToU16(xfer.total_len - xfer.queued_len + U16), xfer.max_packet_size)
      R == IF count < xfer.max_packet_size \/ xfer.queued_len = xfer.total_len
           THEN fsdev_event_xfer_complete(Q, ep_addr, xfer.queued_len)
           ELSE pcd_set_ep_rx_status(
                  btable_set_rx_bufsize(Q, EPindex, BTABLE_BUF.RX, cnt),
                  EPindex, EP_STAT.VALID)
      E == IF wEPRegVal.setup = 1 THEN S ELSE R
  IN IF wEPRegVal.ctr_rx = 0 THEN D
     ELSE IF ep_addr = 0
          THEN pcd_clear_rx_ep_ctr(
                 btable_set_rx_bufsize(E, EPindex, BTABLE_BUF.RX, CFG_TUD_ENDPOINT0_SIZE),
                 EPindex)
          ELSE E

\* lines 381-386: the controller as the handler has it when it reads the
\* count and the data of a packet out of the packet memory (396-403)
dcd_ep_ctr_rx_handler_at_read(D, EPindex) ==
  IF D.reg[EPindex].ea # 0 THEN pcd_clear_rx_ep_ctr(D, EPindex) ELSE D

\* lines 349-423: the handler up to the tail for endpoint 0
dcd_ep_ctr_rx_handler_body(D, EPindex) ==
  LET wEPRegVal == D.reg[EPindex]
      ep_addr == wEPRegVal.ea
      epnum == ep_addr
      is_iso == wEPRegVal.type = USB_EP.ISOCHRONOUS
      \* SETUP
      S == IF D.btable[EPindex][BTABLE_BUF.RX].count = 8
           THEN LET r == ep_add_rx_dtog(ep_add_tx_dtog(
                           ep_add_rx_status(ep_add_tx_status(wEPRegVal, EP_STAT.NAK),
                                            EP_STAT.NAK), 1), 1)
                IN pcd_set_endpoint(fsdev_event_setup_received(D), 0,
                                    [r EXCEPT !.ctr_rx = 1, !.ctr_tx = 1])
           ELSE D
      \* data
      C == dcd_ep_ctr_rx_handler_at_read(D, EPindex)
      buf_id == IF is_iso THEN 1 - wEPRegVal.dtog_rx ELSE 1
      count == C.btable[EPindex][buf_id].count
      Q == [C EXCEPT !.xfer_status[epnum][TUSB_DIR_OUT].queued_len = ToU16(@ + count)]
      xfer == Q.xfer_status[epnum][TUSB_DIR_OUT]
      remaining == ToU16(xfer.total_len - xfer.queued_len + U16)
      cnt == tu_min16(remaining, xfer.max_packet_size)
      R == IF count < xfer.max_packet_size \/ xfer.queued_len = xfer.total_len
           THEN fsdev_event_xfer_complete(Q, ep_addr, xfer.queued_len)
           ELSE pcd_set_ep_rx_status(
                  IF ~is_iso THEN btable_set_rx_bufsize(Q, EPindex, BTABLE_BUF.RX, cnt)
                  ELSE Q,
                  EPindex, EP_STAT.VALID)
  IN IF wEPRegVal.setup = 1 THEN S ELSE R

\* lines 424-431: the tail for endpoint 0, the buffer size first, the clear last
dcd_ep_ctr_rx_handler(D, EPindex) ==
  LET E == dcd_ep_ctr_rx_handler_body(D, EPindex)
  IN IF D.reg[EPindex].ctr_rx = 0 THEN D
     ELSE IF D.reg[EPindex].ea = 0
          THEN pcd_clear_rx_ep_ctr(
                 btable_set_rx_bufsize(E, EPindex, BTABLE_BUF.RX, CFG_TUD_ENDPOINT0_SIZE),
                 EPindex)
          ELSE E

(***************************************************************************)
(* The interrupt handler.  ISTR is the record of its event bits; its CTR   *)
(* bit is read-only and set while some endpoint register has a completion  *)
(* flag set.  CNTR is the record of the three bits the handler and         *)
(* dcd_remote_wakeup change.  The handler's position is kept between the   *)
(* iterations of the completion loop, with int_status, the value of ISTR   *)
(* it read on entry.                                                       *)
(***************************************************************************)
\* ISTR & USB_ISTR_CTR
IstrCtr(D) == \E i \in Slots : D.reg[i].ctr_tx = 1 \/ D.reg[i].ctr_rx = 1

fsdev_event_bus(D, type) ==
  [D EXCEPT !.ev = Append(@, [type |-> type, ep |-> 0, len |-> 0])]

\* line 264
dcd_remote_wakeup_set(D) == [D EXCEPT !.cntr.resume = 1]
\* line 265
dcd_remote_wakeup_count(D) == [D EXCEPT !.remoteWakeCountdown = 4]
dcd_remote_wakeup(D) == dcd_remote_wakeup_count(dcd_remote_wakeup_set(D))

\* one iteration of the loop of dcd_ep_ctr_handler with ISTR.EP_ID = i; the
\* peripheral sets ISTR.DIR when CTR_RX of that endpoint is set
dcd_ep_ctr_handler_iter(D, i) ==
  IF D.reg[i].ctr_rx = 1 THEN dcd_ep_ctr_rx_handler(D, i) ELSE dcd_ep_ctr_tx_handler(D, i)

\* dcd_int_handler that goes on to the other interrupts after a bus reset
dcd_int_handler_head_no_return(D) ==
  LET A == IF D.istr.sof = 1 THEN fsdev_event_bus([D EXCEPT !.istr.sof = 0], "sof") ELSE D
      R == IF D.istr.reset = 1
           THEN fsdev_event_bus(handle_bus_reset([A EXCEPT !.istr.reset = 0]), "bus_reset")
           ELSE A
  IN [R EXCEPT !.isr = [pc |-> IF IstrCtr(D) THEN "ctr" ELSE "tail",
                        int_status |-> [wkup |-> D.istr.wkup, susp |-> D.istr.susp,
                                        esof |-> D.istr.esof]]]

\* lines 451-478: SOF, RESET with its early return, the test of CTR
dcd_int_handler_head(D) ==
  LET A == IF D.istr.sof = 1 THEN fsdev_event_bus([D EXCEPT !.istr.sof = 0], "sof") ELSE D
  IN IF D.istr.reset = 1
     THEN [fsdev_event_bus(handle_bus_reset([A EXCEPT !.istr.reset = 0]), "bus_reset")
             EXCEPT !.isr = IsrIdle]
     ELSE [A EXCEPT !.isr = [pc |-> IF IstrCtr(D) THEN "ctr" ELSE "tail",
                             int_status |-> [wkup |-> D.istr.wkup, susp |-> D.istr.susp,
                                             esof |-> D.istr.esof]]]

\* lines 480-509: WKUP, SUSP, ESOF as int_status has them, and the return
dcd_int_handler_tail(D) ==
  LET s == D.isr.int_status
      W == IF s.wkup = 1
           THEN fsdev_event_bus([D EXCEPT !.cntr.lpmode = 0, !.cntr.fsusp = 0,
                                          !.istr.wkup = 0], "resume")
           ELSE D
      S == IF s.susp = 1
           THEN fsdev_event_bus([W EXCEPT !.cntr.fsusp = 1, !.cntr.lpmode = 1,
                                          !.istr.susp = 0], "suspend")
           ELSE W
      E == IF s.esof = 1
           THEN [S EXCEPT !.cntr.resume = IF S.remoteWakeCountdown = 1 THEN 0 ELSE @,
                          !.remoteWakeCountdown = IF @ > 0 THEN (@ + 255) % 256 ELSE @,
                          !.istr.esof = 0]
           ELSE S
  IN [E EXCEPT !.isr = IsrIdle]

\* endpoint addresses: the control pair and two numbered pairs
EpAddrs == {0, 128, 1, 129, 2, 130}
\* the endpoints of the configuration descriptors the device core opens
OpenAddrs == {1, 129, 130}
\* the state dcd_init leaves: every register disabled, then handle_bus_reset
dcd_init ==
  [handle_bus_reset(
     [ep_buf_ptr |-> 0,
      ep_alloc_status |-> [i \in Slots |-> [ep_num |-> 0, ep_type |-> 0,
                                            allocated |-> [d \in 0..1 |-> FALSE]]],
      xfer_status |-> [n \in 0 .. (CFG_TUD_ENDPPOINT_MAX - 1) |-> [d \in 0..1 |-> ZeroXfer]],
      reg |-> [i \in Slots |-> ZeroReg],
      btable |-> [i \in Slots |-> [b \in 0..1 |-> ZeroBtable]],
      set |-> [i \in Slots |-> [b \in 0..1 |-> FALSE]],
      istr |-> ZeroIstr, cntr |-> ZeroCntr, remoteWakeCountdown |-> 0, isr |-> IsrIdle,
      ev |-> <<>>, ret |-> TRUE]) EXCEPT !.ret = TRUE]

HistInit ==
  [opened |-> {}, busy |-> {}, nopen |-> 0, nxfer |-> 0,
   nrep |-> [a \in EpAddrs |-> 0], moved |-> [a \in EpAddrs |-> 0],
   loading |-> {}, sched |-> [i \in Slots |-> "none"], ign |-> {},
   waking |-> FALSE, woke |-> FALSE, nesof |-> 0]

\* the descriptors the device core opens: bulk, interrupt and isochronous,
\* a packet size that fits and one that does not
OpenDescs ==
  {[xfer |-> TUSB_XFER.BULK, size |-> 8], [xfer |-> TUSB_XFER.BULK, size |-> 512],
   [xfer |-> TUSB_XFER.INTERRUPT, size |-> 8], [xfer |-> TUSB_XFER.ISOCHRONOUS, size |-> 8]}
\* the transfer lengths submitted: empty, one full packet, two and a short one
XferLens == {0, 8, 20}
\* the largest packet sizes dcd_edpt_iso_alloc is called with
IsoSizes == {200}
(***************************************************************************)
(* State                                                                   *)
(***************************************************************************)
VARIABLES
  itf,        \* _mscd_itf
  ep,         \* the two bulk endpoints: device core flags and controller status
  queue,      \* the device event queue, consumed by the device task
  epbuf,      \* _mscd_epbuf.buf
  io,         \* application: size of the request it answered ASYNC to
  host_left,  \* host: bytes of the announced OUT data it has not sent yet
  ncbw,       \* host: number of command blocks it has sent
  g           \* history: tag of the last accepted CBW, transaction open/aborted,
              \* CSWs queued for it, MSC_REQ_RESET handled since the last bus
              \* reset, what the last handler handed to bulk IN and which
              \* callback it invoked, data bytes the host has read from
              \* bulk IN and bytes it has written to bulk OUT in the data
              \* stage since the CBW was accepted, and where the report of
              \* an asynchronous I/O that a bus reset overtook is: "inflight"
              \* not reported yet, "queued" its deferred function is the
              \* first one in the queue, "none" otherwise
VARIABLES
  dcd,        \* the controller driver: ep_buf_ptr, ep_alloc_status, xfer_status,
              \* the endpoint registers and the buffer description table, the
              \* BTABLE addresses programmed since the slot was cleared, the
              \* events the last handler reported and the value it returned
  h           \* history of the controller: the last step and its arguments,
              \* the endpoints the device core holds open and those with a
              \* transfer in flight, allocations asked for since the last
              \* reset, and per endpoint the completions reported and the
              \* bytes the host moved since the transfer was submitted

msc_vars == <<itf, ep, queue, epbuf, io, host_left, ncbw, g>>
vars == <<itf, ep, queue, epbuf, io, host_left, ncbw, g, dcd, h>>

Cur == [itf |-> itf, ep |-> ep, queue |-> queue, epbuf |-> epbuf, io |-> io,
        tx |-> "none", cb |-> NoCall]

\* the application's request is of interest only while its completion is pending
Commit(M) ==
  /\ itf' = M.itf
  /\ ep' = M.ep
  /\ queue' = M.queue
  /\ epbuf' = M.epbuf
  /\ io' = IF M.itf.pending_io = 0 THEN 0 ELSE M.io

\* a CSW is armed on bulk IN
CswArmed(M) == M.ep[EP_IN_ADDR].stat = "VALID" /\ M.ep[EP_IN_ADDR].data.kind = "csw"
\* the handler run that ended in N queued a CSW
CswQueued(N) == N.tx = "csw"
\* event e, handled in M, is a valid CBW that the driver accepts
CbwAccepted(M, e) ==
  /\ e.type = "xfer" /\ M.itf.ep_out # 0 /\ e.ep = M.itf.ep_out
  /\ M.itf.stage = MSC_STAGE_CMD
  /\ e.bytes = SIZEOF_CBW /\ M.epbuf.kind = "cbw"
\* event e, handled in M, completes the CSW
CswCompleted(M, e) ==
  /\ e.type = "xfer" /\ M.itf.ep_in # 0 /\ e.ep = M.itf.ep_in
  /\ M.itf.stage = MSC_STAGE_STATUS_SENT
  /\ e.bytes = SIZEOF_CSW

History(M, e, N) ==
  LET acc == CbwAccepted(M, e)
      sent == CswQueued(N)
      base == IF acc THEN 0 ELSE g.csws
  IN [tag |-> IF acc THEN M.epbuf.cbw.tag ELSE g.tag,
      open |-> IF acc THEN TRUE
               ELSE IF CswCompleted(M, e) \/ e.type = "bus_reset" THEN FALSE
               ELSE g.open,
      aborted |-> IF acc THEN FALSE
                  ELSE IF e.type = "bus_reset" \/ (e.type = "setup" /\ e.req = "msc_reset")
                       THEN TRUE
                       ELSE g.aborted,
      csws |-> IF sent THEN tu_min32(2, base + 1) ELSE base,
      reset |-> IF e.type = "bus_reset" THEN FALSE
                ELSE IF e.type = "setup" /\ e.req = "msc_reset" /\ M.itf.ep_in # 0 THEN TRUE
                ELSE g.reset,
      tx |-> N.tx,
      cb |-> N.cb,
      sent |-> IF acc \/ CswCompleted(M, e) \/ e.type = "bus_reset" THEN 0 ELSE g.sent,
      rcvd |-> IF acc \/ CswCompleted(M, e) \/ e.type = "bus_reset" THEN 0 ELSE g.rcvd,
      stale |-> IF e.type = "bus_reset" /\ M.itf.pending_io = 1 THEN "inflight"
                ELSE IF e.type = "func" /\ g.stale = "queued" THEN "none"
                ELSE g.stale,
      block_sz |-> g.block_sz]

(***************************************************************************)
(* What the host sends                                                     *)
(***************************************************************************)
HostTags == {1, 2}
BlockCounts == {0, 2}
HostCommands == {SCSI_CMD_READ_10, SCSI_CMD_WRITE_10, SCSI_CMD_TEST_UNIT_READY,
                 SCSI_CMD_REQUEST_SENSE, SCSI_CMD_VENDOR}
HostTotals == {0, 8, 2 * CFG_TUD_MSC_EP_BUFSIZE}
AllCbws ==
  [tag : HostTags, total_bytes : HostTotals, dir : {DIR_IN, DIR_OUT}, cmd_len : {10},
   command : HostCommands, lba : {10}, block_count : BlockCounts]
\* bytes 7..8 of the command block are a block count for READ_10/WRITE_10 only
HostCbws ==
  {c \in AllCbws :
     c.command \in {SCSI_CMD_READ_10, SCSI_CMD_WRITE_10} \/ c.block_count = 0}

HostConfigured ==
  /\ itf.ep_in # 0
  /\ \A i \in 1..Len(queue) : queue[i].type # "bus_reset"

QueueHasRoom == Len(queue) < MaxQueue
\* the application may defer one function behind a full queue
DeferHasRoom == Len(queue) <= MaxQueue

Init ==
  /\ itf = ZeroItf
  /\ ep = [a \in Bulk |-> EpClosed]
  /\ queue = <<>>
  /\ epbuf = BufData
  /\ io = 0
  /\ host_left = 0
  /\ ncbw = 0
  /\ g = [tag |-> 0, open |-> FALSE, aborted |-> FALSE, csws |-> 0, reset |-> FALSE,
          tx |-> "none", cb |-> NoCall, sent |-> 0, rcvd |-> 0,
          stale |-> "none", block_sz |-> 0]
  /\ dcd = dcd_init
  /\ h = HistInit

(***************************************************************************)
(* Interrupt context: the controller completes transfers and receives      *)
(* control requests; each is posted to the event queue                     *)
(***************************************************************************)
\* the host sends a CBW into the armed bulk OUT endpoint; which CBW it was
\* is settled when the driver reads the buffer (nothing looks at it before)
HostSendCbw ==
  /\ UNCHANGED <<dcd, h>>
  /\ HostConfigured /\ QueueHasRoom
  /\ ncbw < MaxCommands
  /\ ncbw' = ncbw + 1
  /\ ep[EP_OUT_ADDR].stat = "VALID" /\ ep[EP_OUT_ADDR].len >= SIZEOF_CBW
  /\ epbuf' = BufCbw(ZeroCbw)
  /\ ep' = [ep EXCEPT ![EP_OUT_ADDR].stat = "NAK", ![EP_OUT_ADDR].len = 0]
  /\ queue' = Append(queue, EvXfer(EP_OUT_ADDR, SIZEOF_CBW))
  /\ g' = [g EXCEPT !.rcvd = IF itf.stage = MSC_STAGE_DATA THEN @ + SIZEOF_CBW ELSE @]
  /\ UNCHANGED <<itf, io, host_left>>

\* the host fills the armed bulk OUT transfer with other bytes
HostSendData ==
  /\ UNCHANGED <<dcd, h>>
  /\ UNCHANGED ncbw
  /\ HostConfigured /\ QueueHasRoom
  /\ ep[EP_OUT_ADDR].stat = "VALID"
  /\ queue' = Append(queue, EvXfer(EP_OUT_ADDR, ep[EP_OUT_ADDR].len))
  /\ UNCHANGED host_left
  /\ epbuf' = BufData
  /\ ep' = [ep EXCEPT ![EP_OUT_ADDR].stat = "NAK", ![EP_OUT_ADDR].len = 0]
  /\ g' = [g EXCEPT !.rcvd = IF itf.stage = MSC_STAGE_DATA THEN @ + ep[EP_OUT_ADDR].len ELSE @]
  /\ UNCHANGED <<itf, io>>

\* the host reads the armed bulk IN transfer
HostReadIn ==
  /\ UNCHANGED <<dcd, h>>
  /\ UNCHANGED ncbw
  /\ HostConfigured /\ QueueHasRoom
  /\ ep[EP_IN_ADDR].stat = "VALID"
  /\ queue' = Append(queue, EvXfer(EP_IN_ADDR, ep[EP_IN_ADDR].len))
  /\ ep' = [ep EXCEPT ![EP_IN_ADDR].stat = "NAK", ![EP_IN_ADDR].len = 0,
                      ![EP_IN_ADDR].data = BufData]
  /\ g' = [g EXCEPT !.sent = IF ep[EP_IN_ADDR].data.kind = "csw" THEN @
                              ELSE @ + ep[EP_IN_ADDR].len]
  /\ UNCHANGED <<itf, epbuf, io, host_left>>

\* the host sends a control request to the interface or one of its endpoints;
\* which request it was is settled when the device task decodes the packet
HostControl ==
  /\ UNCHANGED <<dcd, h>>
  /\ UNCHANGED ncbw
  /\ HostConfigured /\ QueueHasRoom
  /\ queue' = Append(queue, EvSetup("class"))
  /\ UNCHANGED <<itf, ep, epbuf, io, host_left, g>>

\* the host configures the device after a bus reset
HostSetConfiguration ==
  /\ UNCHANGED <<dcd, h>>
  /\ UNCHANGED ncbw
  /\ itf.ep_in = 0 /\ QueueHasRoom
  /\ \A i \in 1..Len(queue) : queue[i].type \notin {"bus_reset", "setup"}
  /\ queue' = Append(queue, EvSetup("set_configuration"))
  /\ UNCHANGED <<itf, ep, epbuf, io, host_left, g>>

\* bus reset: the controller disables the endpoints and posts the event
BusReset ==
  /\ UNCHANGED <<dcd, h>>
  /\ UNCHANGED ncbw
  /\ QueueHasRoom
  /\ \A i \in 1..Len(queue) : queue[i].type # "bus_reset"
  /\ ep' = [a \in Bulk |-> [ep[a] EXCEPT !.stat = "DIS", !.len = 0, !.data = BufData]]
  /\ queue' = Append(queue, EvBusReset)
  /\ host_left' = 0
  /\ UNCHANGED <<itf, epbuf, io, g>>

\* the application reports the completion of its asynchronous I/O
AppAsyncIoDone ==
  /\ UNCHANGED <<dcd, h>>
  /\ UNCHANGED ncbw
  /\ DeferHasRoom
  /\ \E k \in {"full", "part", "busy", "error"} :
       Commit(tud_msc_async_io_done(Cur, IoResult(k, io)))
  /\ g' = [g EXCEPT !.stale = IF @ = "inflight"
                               THEN IF itf.pending_io = 1 THEN "queued" ELSE "none"
                               ELSE @]
  /\ UNCHANGED host_left

(***************************************************************************)
(* The device task: one event of the queue per step                        *)
(***************************************************************************)
Pop(M) == [M EXCEPT !.queue = Tail(@)]

\* DCD_EVENT_XFER_COMPLETE: the endpoint is no longer busy, the driver runs
TaskXfer ==
  /\ UNCHANGED <<dcd, h>>
  /\ UNCHANGED ncbw
  /\ queue # <<>> /\ Head(queue).type = "xfer"
  /\ LET e == Head(queue) IN
     \E app \in AppAnswers, c \in IF CbwAccepted(Cur, e) THEN HostCbws ELSE {epbuf.cbw} :
       \E M \in {[Pop(Cur) EXCEPT !.epbuf.cbw = c]} :
       \E N \in {IF M.itf.ep_in = 0 THEN M
                 ELSE mscd_xfer_cb([M EXCEPT !.ep[e.ep].busy = FALSE], e.ep, e.bytes, app)} :
          /\ Commit(N)
          /\ g' = History(M, e, N)
          /\ host_left' = IF CbwAccepted(M, e)
                           THEN IF is_data_in(c.dir) THEN 0 ELSE c.total_bytes
                           ELSE host_left

\* DCD_EVENT_SETUP_RECEIVED for a request that concerns the interface
TaskSetup ==
  /\ UNCHANGED <<dcd, h>>
  /\ UNCHANGED ncbw
  /\ queue # <<>> /\ Head(queue).type = "setup"
  /\ \E r \in IF Head(queue).req = "class" THEN ControlRequests
               ELSE {"set_configuration"} :
       \E N \in {process_control_request(Pop(Cur), r)} :
          /\ Commit(N)
          /\ g' = History(Cur, EvSetup(r), N)
  /\ UNCHANGED host_left

\* USBD_EVENT_FUNC_CALL: the deferred proc_async_io_done
TaskFunc ==
  /\ UNCHANGED <<dcd, h>>
  /\ UNCHANGED ncbw
  /\ queue # <<>> /\ Head(queue).type = "func"
  /\ LET e == Head(queue) IN
     \E app \in AppAnswers :
       \E N \in {proc_async_io_done(Pop(Cur), e.bytes, app)} :
          /\ Commit(N)
          /\ g' = History(Cur, e, N)
  /\ UNCHANGED host_left

\* DCD_EVENT_BUS_RESET: the device core resets its endpoint flags and the driver
TaskBusReset ==
  /\ UNCHANGED <<dcd, h>>
  /\ UNCHANGED ncbw
  /\ queue # <<>> /\ Head(queue).type = "bus_reset"
  /\ LET e == Head(queue)
         N == mscd_reset([Pop(Cur) EXCEPT !.ep = [a \in Bulk |-> EpClosed]])
     IN /\ Commit(N)
        /\ g' = History(Cur, e, N)
  /\ UNCHANGED host_left

Next ==
  \/ HostSendCbw
  \/ HostSendData
  \/ HostReadIn
  \/ HostControl
  \/ HostSetConfiguration
  \/ BusReset
  \/ AppAsyncIoDone
  \/ TaskXfer
  \/ TaskSetup
  \/ TaskFunc
  \/ TaskBusReset

Spec == Init /\ [][Next]_vars

(***************************************************************************)
(* The well-behaved environment: no reset; the host sends a command block  *)
(* only when the previous transaction is over, sends exactly the data it   *)
(* announced, reads every armed bulk IN transfer and answers a stalled     *)
(* endpoint with Clear-Feature(ENDPOINT_HALT); the application completes   *)
(* every asynchronous I/O.  Weak fairness of the device task makes a       *)
(* handler that is repeated with a BUSY answer eventually get another one. *)
(***************************************************************************)
\* the endpoint a Clear-Feature(ENDPOINT_HALT) request names
HaltedEp(req) == IF req = "clear_halt_in" THEN EP_IN_ADDR ELSE EP_OUT_ADDR

GoodHostSendCbw ==
  /\ ~g.open
  /\ HostSendCbw

\* the host sends the next part of the data it announced in the CBW
GoodHostSendData ==
  /\ UNCHANGED <<dcd, h>>
  /\ HostConfigured /\ QueueHasRoom
  /\ g.open /\ host_left > 0
  /\ ep[EP_OUT_ADDR].stat = "VALID"
  /\ LET n == tu_min32(ep[EP_OUT_ADDR].len, host_left) IN
       /\ queue' = Append(queue, EvXfer(EP_OUT_ADDR, n))
       /\ host_left' = host_left - n
       /\ g' = [g EXCEPT !.rcvd = IF itf.stage = MSC_STAGE_DATA THEN @ + n ELSE @]
  /\ epbuf' = BufData
  /\ ep' = [ep EXCEPT ![EP_OUT_ADDR].stat = "NAK", ![EP_OUT_ADDR].len = 0]
  /\ UNCHANGED <<itf, io, ncbw>>

\* the host finds a bulk endpoint stalled and sends Clear-Feature(ENDPOINT_HALT)
GoodHostClearHalt ==
  /\ UNCHANGED <<dcd, h>>
  /\ HostConfigured /\ QueueHasRoom
  /\ \E a \in Bulk : ep[a].stat = "STALL"
  /\ queue' = Append(queue, EvSetup("class"))
  /\ UNCHANGED <<itf, ep, epbuf, io, host_left, ncbw, g>>

\* the control requests of the well-behaved host
GoodTaskSetup ==
  /\ UNCHANGED <<dcd, h>>
  /\ UNCHANGED ncbw
  /\ queue # <<>> /\ Head(queue).type = "setup"
  /\ \E r \in IF Head(queue).req = "class"
               THEN {x \in {"clear_halt_in", "clear_halt_out"} : ep[HaltedEp(x)].stat = "STALL"}
               ELSE {"set_configuration"} :
       \E N \in {process_control_request(Pop(Cur), r)} :
          /\ Commit(N)
          /\ g' = History(Cur, EvSetup(r), N)
  /\ UNCHANGED host_left

GoodNext ==
  \/ HostSetConfiguration
  \/ GoodHostSendCbw
  \/ GoodHostSendData
  \/ HostReadIn
  \/ GoodHostClearHalt
  \/ AppAsyncIoDone
  \/ TaskXfer
  \/ GoodTaskSetup
  \/ TaskFunc

LiveSpec ==
  /\ Init /\ [][GoodNext]_vars
  /\ WF_vars(TaskXfer) /\ WF_vars(GoodTaskSetup) /\ WF_vars(TaskFunc)
  /\ WF_vars(GoodHostSendData) /\ WF_vars(HostReadIn) /\ WF_vars(GoodHostClearHalt)
  /\ WF_vars(AppAsyncIoDone)

(***************************************************************************)
(* The controller driver, in two specifications.  AllocSpec: the device    *)
(* core opens and closes endpoints of any descriptor, within and beyond    *)
(* the slots and the packet memory.  XferSpec: the device core opens the   *)
(* endpoints of its configuration, stalls and submits transfers; the       *)
(* peripheral moves packets and raises CTR under any host; the interrupt   *)
(* handler services one completion per step.                               *)
(***************************************************************************)
\* the call starts with no event reported
\* the transfer record of an endpoint address
XferOf(D, a) == D.xfer_status[tu_edpt_number(a)][tu_edpt_dir(a)]

DCall == [dcd EXCEPT !.ev = <<>>]
\* what a handler run that ended in N reported: completions close the transfer
Reported(N, H) ==
  LET done == {N.ev[k].ep : k \in {j \in 1..Len(N.ev) : N.ev[j].type = "xfer"}}
  IN [H EXCEPT !.busy = @ \ done,
               !.nrep = [a \in EpAddrs |-> IF a \in done THEN tu_min16(2, @[a] + 1) ELSE @[a]]]
\* the endpoint address a slot's register names, per direction
SlotAddr(i, dir) == dcd.reg[i].ea + 128 * dir

\* USB reset: the peripheral clears its endpoint registers, the handler runs
DcdBusReset ==
  /\ dcd' = [handle_bus_reset([DCall EXCEPT !.reg = [i \in Slots |-> ZeroReg]])
               EXCEPT !.ev = <<[type |-> "bus_reset", ep |-> 0, len |-> 0]>>, !.ret = TRUE]
  /\ h' = [HistInit EXCEPT !.nopen = h.nopen, !.nxfer = h.nxfer]
  /\ UNCHANGED msc_vars

\* the device core opens an endpoint of a configuration descriptor
DcdEdptOpen ==
  /\ h.nopen < MaxOpens
  /\ \E a \in OpenAddrs, d \in OpenDescs :
       /\ a \notin h.busy
       /\ dcd' = dcd_edpt_open(DCall, a, d.xfer, d.size)
       /\ h' = [h EXCEPT !.nopen = @ + 1,
                         !.opened = IF dcd'.ret THEN @ \cup {a} ELSE @]
  /\ UNCHANGED msc_vars

\* a class driver reserves an isochronous endpoint
DcdEdptIsoAlloc ==
  /\ h.nopen < MaxOpens
  /\ \E a \in OpenAddrs, size \in IsoSizes :
       /\ a \notin h.busy
       /\ dcd' = dcd_edpt_iso_alloc(DCall, a, size)
       /\ h' = [h EXCEPT !.nopen = @ + 1]
  /\ UNCHANGED msc_vars

\* the device core closes every endpoint but the control pair
DcdEdptCloseAll ==
  /\ dcd' = [dcd_edpt_close_all(DCall) EXCEPT !.ret = TRUE]
  /\ h' = [h EXCEPT !.opened = {}, !.busy = @ \cap {0, 128}]
  /\ UNCHANGED msc_vars

\* SET_CONFIGURATION: the device core opens the endpoints of its
\* configuration, a bulk pair and an interrupt IN endpoint
DcdOpenConfigured ==
  /\ h.opened = {}
  /\ dcd' = dcd_edpt_open(
              dcd_edpt_open(
                dcd_edpt_open(DCall, 1, TUSB_XFER.BULK, CFG_TUD_ENDPOINT0_SIZE),
                129, TUSB_XFER.BULK, CFG_TUD_ENDPOINT0_SIZE),
              130, TUSB_XFER.INTERRUPT, CFG_TUD_ENDPOINT0_SIZE)
  /\ h' = [h EXCEPT !.opened = OpenAddrs]
  /\ UNCHANGED msc_vars

\* the device core submits a transfer on an open endpoint that is not busy
DcdEdptXfer ==
  /\ h.nxfer < MaxXfers
  /\ \E a \in (h.opened \cup {0, 128}) \ h.busy, total \in XferLens :
       /\ dcd' = fsdev_edpt_xfer(DCall, a, total)
       /\ h' = [h EXCEPT !.nxfer = @ + 1, !.busy = @ \cup {a},
                         !.nrep = [@ EXCEPT ![a] = 0], !.moved = [@ EXCEPT ![a] = 0]]
  /\ UNCHANGED msc_vars

\* the device core stalls both directions of the control endpoint on a
\* request it does not support
DcdEdptStall ==
  /\ h.busy \cap {0, 128} = {}
  /\ dcd' = [fsdev_edpt_stall(fsdev_edpt_stall(DCall, 0), 128) EXCEPT !.ret = TRUE]
  /\ UNCHANGED h
  /\ UNCHANGED msc_vars

\* the host takes the packet of an armed IN endpoint
HwTx ==
  /\ \E i \in Slots :
       /\ dcd.reg[i].stat_tx = EP_STAT.VALID /\ dcd.reg[i].ctr_tx = 0
       /\ dcd.reg[i].type # USB_EP.ISOCHRONOUS
       /\ dcd' = [dcd EXCEPT !.reg[i].stat_tx = EP_STAT.NAK, !.reg[i].ctr_tx = 1,
                             !.reg[i].dtog_tx = 1 - @]
       /\ h' = [h EXCEPT !.moved = [a \in EpAddrs |->
                                      IF a = SlotAddr(i, 1)
                                      THEN @[a] + dcd.btable[i][BTABLE_BUF.TX].count
                                      ELSE @[a]]]
  /\ UNCHANGED msc_vars

\* the host sends a packet to an armed OUT endpoint: any length the
\* programmed buffer size lets in
HwRx ==
  /\ \E i \in Slots :
       /\ dcd.reg[i].stat_rx = EP_STAT.VALID /\ dcd.reg[i].ctr_rx = 0
       /\ dcd.reg[i].type # USB_EP.ISOCHRONOUS
       /\ h.moved[SlotAddr(i, 0)] < MaxBytes
       /\ \E count \in {0, 4, dcd.btable[i][BTABLE_BUF.RX].bufsize} :
            /\ count <= dcd.btable[i][BTABLE_BUF.RX].bufsize
            /\ dcd' = [dcd EXCEPT !.reg[i].stat_rx = EP_STAT.NAK, !.reg[i].ctr_rx = 1,
                                  !.reg[i].setup = 0, !.reg[i].dtog_rx = 1 - @,
                                  !.btable[i][BTABLE_BUF.RX].count = count]
            /\ h' = [h EXCEPT !.moved = [a \in EpAddrs |->
                                           IF a = SlotAddr(i, 0) THEN @[a] + count
                                           ELSE @[a]]]
  /\ UNCHANGED msc_vars

\* the host sends a SETUP packet to the control endpoint, whatever its status;
\* the peripheral either leaves the status bits or sets both to NAK
HwSetup ==
  /\ dcd.reg[0].type = USB_EP.CONTROL /\ dcd.reg[0].ea = 0 /\ dcd.reg[0].ctr_rx = 0
  /\ \E count \in {8, 4}, nak \in BOOLEAN :
       /\ dcd' = [dcd EXCEPT !.reg[0].ctr_rx = 1, !.reg[0].setup = 1,
                             !.reg[0].stat_tx = IF nak THEN EP_STAT.NAK ELSE @,
                             !.reg[0].stat_rx = IF nak THEN EP_STAT.NAK ELSE @,
                             !.btable[0][BTABLE_BUF.RX].count = count]
       /\ UNCHANGED h
  /\ UNCHANGED msc_vars

\* dcd_ep_ctr_handler, one iteration with ISTR.DIR = 0
IsrCtrTx ==
  /\ \E i \in Slots :
       /\ dcd.reg[i].ctr_tx = 1
       /\ dcd' = [dcd_ep_ctr_tx_handler(DCall, i) EXCEPT !.ret = TRUE]
       /\ h' = Reported(dcd', h)
  /\ UNCHANGED msc_vars

\* dcd_ep_ctr_handler, one iteration with ISTR.DIR = 1
IsrCtrRx ==
  /\ \E i \in Slots :
       /\ dcd.reg[i].ctr_rx = 1
       /\ dcd' = [dcd_ep_ctr_rx_handler(DCall, i) EXCEPT !.ret = TRUE]
       /\ h' = Reported(dcd', h)
  /\ UNCHANGED msc_vars

AllocNext ==
  \/ DcdBusReset
  \/ DcdEdptOpen
  \/ DcdEdptIsoAlloc
  \/ DcdEdptCloseAll

AllocSpec == Init /\ [][AllocNext]_vars

XferNext ==
  \/ DcdBusReset
  \/ DcdOpenConfigured
  \/ DcdEdptXfer
  \/ DcdEdptStall
  \/ HwTx
  \/ HwRx
  \/ HwSetup
  \/ IsrCtrTx
  \/ IsrCtrRx

XferSpec == Init /\ [][XferNext]_vars

(***************************************************************************)
(* IsoSpec: isochronous endpoints.  A class driver reserves and activates  *)
(* them and submits IN transfers; the host polls an active IN endpoint     *)
(* every frame whether a packet is scheduled or not.  dcd_edpt_xfer runs   *)
(* in task context with the interrupt enabled up to line 780, so the       *)
(* peripheral and the interrupt handler may act between the load of a      *)
(* packet and the critical section that arms it.                           *)
(***************************************************************************)
\* h.sched follows the packet a transfer has loaded into a slot: which buffer
\* holds it, "sent" once the host took it, "dropped" once its completion was
\* serviced as spurious; h.ign holds the endpoints that had a completion
\* ignored since their last submission.
\* the buffer of an isochronous IN slot that DTOG_TX selects
BufName(dtog) == IF dtog = 0 THEN "b0" ELSE "b1"

\* dcd_edpt_iso_activate on an endpoint reserved by dcd_edpt_iso_alloc
DcdEdptIsoActivate ==
  /\ h.loading = {}
  /\ \E a \in OpenAddrs \ h.opened :
       LET e == dcd.ep_alloc_status[XferOf(dcd, a).ep_idx] IN
       /\ e.ep_type = TUSB_XFER.ISOCHRONOUS /\ e.ep_num = tu_edpt_number(a)
       /\ e.allocated[tu_edpt_dir(a)]
       /\ dcd' = dcd_edpt_iso_activate(DCall, a, CFG_TUD_ENDPOINT0_SIZE)
       /\ h' = [h EXCEPT !.opened = @ \cup {a}]
  /\ UNCHANGED msc_vars

\* dcd_edpt_xfer on an isochronous IN endpoint, up to line 779
IsoXferLoad ==
  /\ h.loading = {} /\ h.nxfer < MaxXfers
  /\ \E a \in (h.opened \cap {129, 130}) \ h.busy, total \in XferLens :
       LET k == XferOf(dcd, a).ep_idx
           X == [DCall EXCEPT
                   !.xfer_status[tu_edpt_number(a)][TUSB_DIR_IN].total_len = total,
                   !.xfer_status[tu_edpt_number(a)][TUSB_DIR_IN].queued_len = 0]
       IN /\ dcd.reg[k].type = USB_EP.ISOCHRONOUS
          /\ dcd' = [dcd_transmit_packet_load(X, tu_edpt_number(a), k) EXCEPT !.ret = TRUE]
          /\ h' = [h EXCEPT !.nxfer = @ + 1, !.busy = @ \cup {a},
                            !.nrep = [@ EXCEPT ![a] = 0], !.loading = {a},
                            !.ign = @ \ {a},
                            !.sched = [@ EXCEPT ![k] = BufName(dcd.reg[k].dtog_tx)]]
  /\ UNCHANGED msc_vars

\* the rest of that call, lines 780-785 and the return
IsoXferArm ==
  /\ \E a \in h.loading :
       /\ dcd' = [dcd_transmit_packet_arm(DCall, tu_edpt_number(a), XferOf(dcd, a).ep_idx)
                    EXCEPT !.ret = TRUE]
       /\ h' = [h EXCEPT !.loading = {}]
  /\ UNCHANGED msc_vars

\* the host polls an active isochronous IN endpoint: the peripheral sends the
\* buffer DTOG_TX selects, flips DTOG_TX and raises CTR_TX; the status stays
HwIsoTx ==
  /\ \E i \in Slots :
       /\ dcd.reg[i].type = USB_EP.ISOCHRONOUS
       /\ dcd.reg[i].stat_tx = EP_STAT.VALID /\ dcd.reg[i].ctr_tx = 0
       /\ dcd' = [dcd EXCEPT !.reg[i].ctr_tx = 1, !.reg[i].dtog_tx = 1 - @]
       /\ h' = [h EXCEPT !.sched = [@ EXCEPT ![i] =
                                      IF @ = BufName(dcd.reg[i].dtog_tx) THEN "sent" ELSE @]]
  /\ UNCHANGED msc_vars

\* dcd_ep_ctr_handler, one iteration for an isochronous IN slot
IsoIsrCtrTx ==
  /\ \E i \in Slots :
       LET x == dcd.xfer_status[dcd.reg[i].ea][TUSB_DIR_IN] IN
       /\ dcd.reg[i].ctr_tx = 1 /\ dcd.reg[i].type = USB_EP.ISOCHRONOUS
       /\ dcd' = [dcd_ep_ctr_tx_handler(DCall, i) EXCEPT !.ret = TRUE]
       /\ h' = [Reported(dcd', h) EXCEPT
                 !.sched = [@ EXCEPT ![i] =
                    IF ~x.iso_in_sending THEN (IF @ = "sent" THEN "dropped" ELSE @)
                    ELSE IF x.total_len # x.queued_len THEN BufName(dcd.reg[i].dtog_tx)
                    ELSE "none"],
                 !.ign = IF x.iso_in_sending THEN @ ELSE @ \cup {SlotAddr(i, 1)}]
  /\ UNCHANGED msc_vars

IsoNext ==
  \/ DcdEdptIsoAlloc
  \/ DcdEdptIsoActivate
  \/ DcdEdptStall
  \/ IsoXferLoad
  \/ IsoXferArm
  \/ HwIsoTx
  \/ IsoIsrCtrTx

IsoSpec == Init /\ [][IsoNext]_vars

(***************************************************************************)
(* IntSpec and WakeSpec: the interrupt handler.  The peripheral raises its  *)
(* events at any time; dcd_int_handler runs from its entry to its return   *)
(* without the task in between, one step per part and per iteration of the *)
(* completion loop; the task's calls run while the handler is idle, and    *)
(* dcd_remote_wakeup, which writes CNTR and then the countdown with the    *)
(* interrupt enabled, can be interrupted between the two.  IntSpec has the *)
(* endpoint completions, WakeSpec the bus events and the remote wakeup.    *)
(***************************************************************************)
\* events one run of the handler is followed for
MaxEvents == 5

\* the peripheral sets SOF, WKUP, SUSP or ESOF
HwRaise ==
  /\ \E b \in {"sof", "wkup", "susp", "esof"} :
       /\ dcd.istr[b] = 0
       /\ dcd' = [dcd EXCEPT !.istr[b] = 1]
  /\ UNCHANGED h
  /\ UNCHANGED msc_vars

\* USB reset on the bus: RESET is set and the endpoint registers are cleared
HwReset ==
  /\ dcd.istr.reset = 0
  /\ dcd' = [dcd EXCEPT !.istr.reset = 1, !.reg = [i \in Slots |-> ZeroReg]]
  /\ UNCHANGED h
  /\ UNCHANGED msc_vars

\* a host sends a SETUP packet to an endpoint other than 0 whose register has
\* the type CONTROL, which is what dcd_edpt_open gives a bulk endpoint
HwSetupBulk ==
  /\ \E i \in Slots \ {0} :
       /\ dcd.reg[i].type = USB_EP.CONTROL /\ dcd.reg[i].stat_rx # EP_STAT.DIS
       /\ dcd.reg[i].ctr_rx = 0
       /\ dcd' = [dcd EXCEPT !.reg[i].ctr_rx = 1, !.reg[i].setup = 1,
                             !.btable[i][BTABLE_BUF.RX].count = 8]
  /\ UNCHANGED h
  /\ UNCHANGED msc_vars

\* the task is running and not inside dcd_remote_wakeup
TaskRuns == dcd.isr.pc = "idle" /\ ~h.waking

\* the device core opens a bulk OUT endpoint
IntOpen ==
  /\ TaskRuns /\ 1 \notin h.opened
  /\ dcd' = dcd_edpt_open(DCall, 1, TUSB_XFER.BULK, CFG_TUD_ENDPOINT0_SIZE)
  /\ h' = [h EXCEPT !.opened = @ \cup {1}]
  /\ UNCHANGED msc_vars

\* the device core submits a transfer of one packet
IntXfer ==
  /\ TaskRuns /\ h.nxfer < MaxXfers
  /\ \E a \in (h.opened \cup {0, 128}) \ h.busy :
       /\ dcd' = fsdev_edpt_xfer(DCall, a, CFG_TUD_ENDPOINT0_SIZE)
       /\ h' = [h EXCEPT !.nxfer = @ + 1, !.busy = @ \cup {a},
                         !.nrep = [@ EXCEPT ![a] = 0], !.moved = [@ EXCEPT ![a] = 0]]
  /\ UNCHANGED msc_vars

\* dcd_remote_wakeup, line 264
RemoteWakeupSet ==
  /\ TaskRuns
  /\ dcd' = [dcd_remote_wakeup_set(DCall) EXCEPT !.ret = TRUE]
  /\ h' = [h EXCEPT !.waking = TRUE, !.woke = TRUE, !.nesof = 0]
  /\ UNCHANGED msc_vars

\* dcd_remote_wakeup, line 265 and the return
RemoteWakeupCount ==
  /\ dcd.isr.pc = "idle" /\ h.waking
  /\ dcd' = [dcd_remote_wakeup_count(DCall) EXCEPT !.ret = TRUE]
  /\ h' = [h EXCEPT !.waking = FALSE]
  /\ UNCHANGED msc_vars

\* dcd_int_handler is entered: SOF, RESET, the test of CTR
IsrEnter ==
  /\ dcd.isr.pc = "idle"
  /\ dcd.istr # ZeroIstr \/ IstrCtr(dcd)
  /\ dcd' = [dcd_int_handler_head(DCall) EXCEPT !.ret = TRUE]
  /\ h' = IF dcd.istr.reset = 1
          THEN [HistInit EXCEPT !.nopen = h.nopen, !.nxfer = h.nxfer,
                                !.waking = h.waking, !.woke = h.woke, !.nesof = h.nesof]
          ELSE h
  /\ UNCHANGED msc_vars

\* one iteration of the loop of dcd_ep_ctr_handler, for the endpoint ISTR names
IsrCtrIter ==
  /\ dcd.isr.pc = "ctr" /\ Len(dcd.ev) < MaxEvents
  /\ \E i \in Slots :
       /\ dcd.reg[i].ctr_tx = 1 \/ dcd.reg[i].ctr_rx = 1
       /\ LET R == dcd_ep_ctr_handler_iter(DCall, i)
          IN /\ dcd' = [R EXCEPT !.ev = dcd.ev \o R.ev, !.ret = TRUE]
             /\ h' = Reported(R, h)
  /\ UNCHANGED msc_vars

\* the loop ends, or was not entered: WKUP, SUSP, ESOF, and the return
IsrTail ==
  /\ dcd.isr.pc = "tail" \/ (dcd.isr.pc = "ctr" /\ ~IstrCtr(dcd))
  /\ dcd' = [dcd_int_handler_tail(dcd) EXCEPT !.ret = TRUE]
  /\ h' = [h EXCEPT !.nesof = IF dcd.isr.int_status.esof = 1 /\ @ < 4 THEN @ + 1 ELSE @]
  /\ UNCHANGED msc_vars

IntNext ==
  \/ HwTx
  \/ HwRx
  \/ HwSetup
  \/ HwSetupBulk
  \/ IntOpen
  \/ IntXfer
  \/ IsrEnter
  \/ IsrCtrIter
  \/ IsrTail

IntSpec == Init /\ [][IntNext]_vars

\* WakeSpec: remote wakeup and the countdown of the interrupt handler
WakeNext ==
  \/ HwRaise
  \/ HwReset
  \/ RemoteWakeupSet
  \/ RemoteWakeupCount
  \/ IsrEnter
  \/ IsrTail

WakeSpec == Init /\ [][WakeNext]_vars

(***************************************************************************)
(* BlockSpec: the block size of READ_10 / WRITE_10.  A command block with  *)
(* any 32-bit total_bytes and 16-bit block count is in _mscd_itf.cbw;      *)
(* proc_cbw validates it, and the data stage takes its block size.         *)
(***************************************************************************)
\* dCBWDataTransferLength: small, around 2^16 and its multiples, the largest
BlockTotals == {0, 1, 8, 512, U16 - 1, U16, U16 + 1, 2 * U16, 256 * U16, U32 - 1}
\* the block count of the command: none, one, two, a divisor of 2^24, the largest
BlockNumbers == {0, 1, 2, 256, U16 - 1}
BlockCbws ==
  [tag : {1}, total_bytes : BlockTotals, dir : {DIR_IN, DIR_OUT}, cmd_len : {10},
   command : {SCSI_CMD_READ_10, SCSI_CMD_WRITE_10}, lba : {10}, block_count : BlockNumbers]

BlockInit ==
  /\ \E c \in BlockCbws : itf = [ZeroItf EXCEPT !.cbw = c]
  /\ ep = [a \in Bulk |-> EpClosed]
  /\ queue = <<>>
  /\ epbuf = BufData
  /\ io = 0
  /\ host_left = 0
  /\ ncbw = 0
  /\ g = [tag |-> 0, open |-> FALSE, aborted |-> FALSE, csws |-> 0, reset |-> FALSE,
          tx |-> "none", cb |-> NoCall, sent |-> 0, rcvd |-> 0,
          stale |-> "none", block_sz |-> 0]
  /\ dcd = dcd_init
  /\ h = HistInit

\* proc_cbw on READ_10 / WRITE_10: rdwr10_validate_cmd decides the stage
BlockValidate ==
  /\ itf.stage = MSC_STAGE_CMD
  /\ LET status == rdwr10_validate_cmd(itf.cbw)
     IN itf' = [itf EXCEPT !.csw.status = status,
                           !.stage = IF status = MSC_CSW_STATUS_PASSED /\ itf.cbw.total_bytes > 0
                                     THEN MSC_STAGE_DATA ELSE MSC_STAGE_STATUS]
  /\ UNCHANGED <<ep, queue, epbuf, io, host_left, ncbw, g, dcd, h>>

\* proc_read10_cmd / proc_write10_host_data take the block size they divide by
BlockTake ==
  /\ itf.stage = MSC_STAGE_DATA
  /\ g' = [g EXCEPT !.block_sz = rdwr10_get_blocksize(itf.cbw)]
  /\ itf' = [itf EXCEPT !.stage = MSC_STAGE_STATUS]
  /\ UNCHANGED <<ep, queue, epbuf, io, host_left, ncbw, dcd, h>>

BlockNext ==
  \/ BlockValidate
  \/ BlockTake

BlockSpec == BlockInit /\ [][BlockNext]_vars

(***************************************************************************)
(* Vocabulary of the properties                                            *)
(***************************************************************************)
\* the device task is about to decode a control request for the interface
ClassRequestPending ==
  queue # <<>> /\ Head(queue) = EvSetup("class") /\ HostConfigured
\* the machine after the pending control request was handled as request r
AfterRequest(r) == process_control_request(Pop(Cur), r)
\* the device task is about to handle event e, and only the device task
\* takes an event from the queue
TaskHandles == queue # <<>> /\ queue' # queue /\ Len(queue') <= Len(queue)
\* the device task is about to handle a bulk OUT completion in stage CMD that
\* is not a 31-byte packet with the CBW signature
InvalidCbwEvent ==
  /\ queue # <<>> /\ Head(queue).type = "xfer"
  /\ itf.ep_out # 0 /\ Head(queue).ep = itf.ep_out
  /\ itf.stage = MSC_STAGE_CMD
  /\ ~(Head(queue).bytes = SIZEOF_CBW /\ buf_signature(epbuf) = MSC_CBW_SIGNATURE)
\* both bulk endpoints are stalled and carry no transfer
BothStalled(e) ==
  \A a \in Bulk : e[a].stalled /\ e[a].stat = "STALL" /\ e[a].len = 0
\* a read is armed on bulk OUT whose completion the driver parses as a CBW
CbwReadArmed == itf.stage = MSC_STAGE_CMD /\ ep[EP_OUT_ADDR].stat = "VALID"
\* the stored command is data-IN and fewer bytes than cbw.total_bytes were sent
HiDi == is_data_in(itf.cbw.dir) /\ itf.xferred_len < itf.cbw.total_bytes

(***************************************************************************)
(* C1: every valid CBW accepted in stage CMD is eventually followed by a   *)
(* CSW queued on bulk IN, when no reset occurs, the host services every    *)
(* armed transfer with exactly the data it announced and clears every      *)
(* stall, and the application completes every I/O.                         *)
(***************************************************************************)
C1_EveryCommandGetsCsw == (g.open /\ g.csws = 0) ~> (g.csws >= 1)

C3_InvalidCbwStallsBoth ==
  /\ [][(InvalidCbwEvent /\ TaskHandles) =>
          (itf' = [itf EXCEPT !.stage = MSC_STAGE_NEED_RESET] /\ BothStalled(ep'))]_vars
  /\ [][(itf.stage # MSC_STAGE_NEED_RESET /\ itf'.stage = MSC_STAGE_NEED_RESET)
          => InvalidCbwEvent]_vars

\* an invalid packet arrived after a command: NEED_RESET with the CBW kept
C3_Witness ==
  /\ itf.stage = MSC_STAGE_NEED_RESET /\ BothStalled(ep)
  /\ itf.cbw.tag # 0 /\ itf.csw.tag = itf.cbw.tag

(***************************************************************************)
(* C4: in NEED_RESET both bulk endpoints are stalled with nothing armed,   *)
(* Clear-Feature(ENDPOINT_HALT) and a malformed reset request leave the    *)
(* interface as it is and both endpoints stalled, and the stage is left    *)
(* only by a well-formed MSC_REQ_RESET or by a bus reset.                  *)
(***************************************************************************)
C4_NeedResetSticky ==
  /\ []((itf.stage = MSC_STAGE_NEED_RESET /\ HostConfigured) => BothStalled(ep))
  /\ []((itf.stage = MSC_STAGE_NEED_RESET /\ ClassRequestPending) =>
          \A r \in {"clear_halt_in", "clear_halt_out", "msc_reset_malformed"} :
             AfterRequest(r).itf = itf /\ BothStalled(AfterRequest(r).ep))
  /\ [][(itf.stage = MSC_STAGE_NEED_RESET /\ itf'.stage # MSC_STAGE_NEED_RESET) =>
          \/ Head(queue).type = "bus_reset"
          \/ (ClassRequestPending /\ itf' = AfterRequest("msc_reset").itf)]_vars

(***************************************************************************)
(* C5: MSC_REQ_RESET sets stage CMD, zeroes total_len, xferred_len and the *)
(* sense triple and leaves the endpoints alone; from then until the next   *)
(* CBW is accepted no handler hands anything to bulk IN.                   *)
(***************************************************************************)
C5_BotReset ==
  /\ ClassRequestPending =>
       LET N == AfterRequest("msc_reset") IN
       /\ N.itf = [itf EXCEPT !.stage = MSC_STAGE_CMD, !.total_len = 0, !.xferred_len = 0,
                              !.sense_key = 0, !.add_sense_code = 0,
                              !.add_sense_qualifier = 0]
       /\ N.ep = ep /\ N.tx = "none"
  /\ g.aborted => g.tx = "none"

(***************************************************************************)
(* C6: Clear-Feature(ENDPOINT_HALT) on bulk OUT handled in stage CMD       *)
(* leaves exactly one 31-byte CBW read armed on bulk OUT; in stages DATA,  *)
(* STATUS and STATUS_SENT it arms nothing.  The request changes neither    *)
(* the interface nor bulk IN.                                              *)
(***************************************************************************)
C6_ClearHaltOutArmsCbw ==
  ClassRequestPending =>
    LET N == AfterRequest("clear_halt_out") IN
    /\ N.itf = itf /\ N.ep[EP_IN_ADDR] = ep[EP_IN_ADDR] /\ N.tx = "none"
    /\ itf.stage = MSC_STAGE_CMD =>
          (N.ep[EP_OUT_ADDR].stat = "VALID" /\ N.ep[EP_OUT_ADDR].len = SIZEOF_CBW)
    /\ itf.stage \in {MSC_STAGE_DATA, MSC_STAGE_STATUS, MSC_STAGE_STATUS_SENT} =>
          (N.ep[EP_OUT_ADDR].stat = "VALID" => N.ep[EP_OUT_ADDR] = ep[EP_OUT_ADDR])

(***************************************************************************)
(* C7: when a data-IN command reaches stage STATUS with fewer bytes sent   *)
(* than cbw.total_bytes, bulk IN is stalled and carries no CSW; a          *)
(* Clear-Feature(ENDPOINT_HALT) on bulk IN in that stage queues the CSW    *)
(* with the stored status and residue cbw.total_bytes - xferred_len; and   *)
(* that is the only way, and the only time, a CSW is queued for it.        *)
(***************************************************************************)
C7_HiDiStallThenCsw ==
  /\ []((HostConfigured /\ itf.stage = MSC_STAGE_STATUS /\ HiDi) =>
          (ep[EP_IN_ADDR].stalled /\ ep[EP_IN_ADDR].stat = "STALL" /\ ~CswArmed(Cur)))
  /\ []((itf.stage = MSC_STAGE_STATUS /\ ClassRequestPending /\ HiDi) =>
          LET N == AfterRequest("clear_halt_in") IN
          /\ N.tx = "csw" /\ N.itf.stage = MSC_STAGE_STATUS_SENT
          /\ N.ep[EP_IN_ADDR].stat = "VALID" /\ N.ep[EP_IN_ADDR].len = SIZEOF_CSW
          /\ N.ep[EP_IN_ADDR].data.csw =
               [itf.csw EXCEPT !.data_residue = itf.cbw.total_bytes - itf.xferred_len])
  /\ [][(g'.csws # g.csws /\ g'.csws > 0 /\ HiDi') =>
          (itf.stage = MSC_STAGE_STATUS /\ ClassRequestPending /\ g'.csws = 1)]_vars

(***************************************************************************)
(* C8: the counters are ordered, xferred_len <= total_len <=               *)
(* cbw.total_bytes, in every state.                                        *)
(***************************************************************************)
C8_CountersOrdered ==
  itf.xferred_len <= itf.total_len /\ itf.total_len <= itf.cbw.total_bytes

(***************************************************************************)
(* C9: a CSW that a handler hands to bulk IN carries data_residue =        *)
(* cbw.total_bytes - xferred_len, and the value is within                  *)
(* 0..cbw.total_bytes.                                                     *)
(***************************************************************************)
C9_ResidueInRange ==
  (g.tx = "csw" /\ CswArmed(Cur)) =>
     /\ ep[EP_IN_ADDR].data.csw.data_residue = Sub32(itf.cbw.total_bytes, itf.xferred_len)
     /\ ep[EP_IN_ADDR].data.csw.data_residue <= itf.cbw.total_bytes

(***************************************************************************)
(* C10: a CSW that bulk IN holds for the host has the CSW signature and    *)
(* the tag of the most recently accepted CBW.                              *)
(***************************************************************************)
C10_CswTagAndSignature ==
  CswArmed(Cur) =>
     /\ ep[EP_IN_ADDR].data.csw.signature = MSC_CSW_SIGNATURE
     /\ ep[EP_IN_ADDR].data.csw.tag = g.tag

(***************************************************************************)
(* Vocabulary of the properties, continued                                 *)
(***************************************************************************)
\* the device task is about to handle a bulk completion
XferEvent == queue # <<>> /\ Head(queue).type = "xfer" /\ TaskHandles
\* exactly one transfer is pending on bulk IN and it is the 13-byte CSW:
\* armed in the controller, or completed with its event still in the queue
CswPending ==
  /\ ep[EP_IN_ADDR].busy /\ ~ep[EP_IN_ADDR].stalled
  /\ \/ /\ CswArmed(Cur) /\ ep[EP_IN_ADDR].len = SIZEOF_CSW
        /\ \A i \in 1..Len(queue) :
              ~(queue[i].type = "xfer" /\ queue[i].ep = EP_IN_ADDR)
     \/ /\ ep[EP_IN_ADDR].stat = "NAK"
        /\ \E i \in 1..Len(queue) : queue[i] = EvXfer(EP_IN_ADDR, SIZEOF_CSW)

(***************************************************************************)
(* C11: in stage STATUS_SENT exactly one transfer is pending on bulk IN    *)
(* and it is the 13-byte CSW; a bulk completion handled in STATUS_SENT     *)
(* moves the stage to CMD, arming the CBW read on a bulk OUT endpoint that *)
(* is not halted, if it is the IN completion of 13 bytes, and changes      *)
(* nothing of the interface otherwise.                                     *)
(***************************************************************************)
C11_StatusSentHoldsCsw ==
  /\ []((HostConfigured /\ itf.stage = MSC_STAGE_STATUS_SENT) => CswPending)
  /\ [][(XferEvent /\ itf.stage = MSC_STAGE_STATUS_SENT) =>
          IF Head(queue) = EvXfer(itf.ep_in, SIZEOF_CSW)
          THEN /\ itf' = [itf EXCEPT !.stage = MSC_STAGE_CMD]
               /\ ~ep[EP_OUT_ADDR].stalled =>
                     (ep'[EP_OUT_ADDR].stat = "VALID" /\ ep'[EP_OUT_ADDR].len = SIZEOF_CBW)
          ELSE itf' = itf]_vars

(***************************************************************************)
(* C12: while pending_io = 1 every bulk completion and every control       *)
(* request the device task handles leaves the interface as it is and       *)
(* invokes no read10/write10/scsi callback.                                *)
(***************************************************************************)
C12_NoDispatchWhilePending ==
  [][(itf.pending_io = 1 /\ queue # <<>> /\ Head(queue).type \in {"xfer", "setup"}
        /\ TaskHandles)
       => (itf' = itf /\ g'.cb.fn = "none")]_vars

\* the device task is about to handle the completion of a CBW it will accept
CbwEventPending == queue # <<>> /\ CbwAccepted(Cur, Head(queue)) /\ HostConfigured
\* the machine after the pending CBW was handled, had the host sent c and
\* were the application to answer app
AfterCbw(c, app) ==
  mscd_xfer_cb([Pop(Cur) EXCEPT !.epbuf.cbw = c, !.ep[EP_OUT_ADDR].busy = FALSE],
               EP_OUT_ADDR, SIZEOF_CBW, app)
\* the sense triple of the interface
Sense(i) == <<i.sense_key, i.add_sense_code, i.add_sense_qualifier>>
\* the WRITE_10 command blocks that pass validation and carry data
ValidWrites ==
  {c \in HostCbws : /\ c.command = SCSI_CMD_WRITE_10 /\ c.total_bytes > 0
                    /\ rdwr10_validate_cmd(c) = MSC_CSW_STATUS_PASSED}

ValidRead ==
  /\ itf.cbw.command = SCSI_CMD_READ_10 /\ itf.cbw.total_bytes > 0
  /\ rdwr10_validate_cmd(itf.cbw) = MSC_CSW_STATUS_PASSED
\* bytes per block of the stored READ_10/WRITE_10
BlockSize == itf.cbw.total_bytes \div itf.cbw.block_count
\* the arguments of a callback invocation
CallArgs(c) == <<c.fn, c.lba, c.offset, c.size>>

ValidWrite ==
  /\ itf.cbw.command = SCSI_CMD_WRITE_10
  /\ itf.cbw.total_bytes > 0
  /\ rdwr10_validate_cmd(itf.cbw) = MSC_CSW_STATUS_PASSED

\* byte position in the medium, counted from the first block of the command
WritePos(c) == (c.lba - itf.cbw.lba) * BlockSize + c.offset

C15_Write10Partial ==
  /\ [][(/\ ~g.reset
         /\ XferEvent
         /\ ValidWrite
         /\ itf.stage = MSC_STAGE_DATA
         /\ g.cb.fn = "write10"
         /\ g.cb.ret >= 0
         /\ g.cb.ret < g.cb.size
         /\ Head(queue) = EvXfer(itf.ep_out, g.cb.size - g.cb.ret))
        => /\ g'.cb.fn = "write10"
           /\ g'.cb.size = g.cb.size - g.cb.ret
           /\ WritePos(g'.cb) = WritePos(g.cb) + g.cb.ret]_vars
  /\ []((/\ ~g.reset
         /\ ValidWrite
         /\ itf.stage \in {MSC_STAGE_STATUS, MSC_STAGE_STATUS_SENT}
         /\ itf.csw.status = MSC_CSW_STATUS_PASSED)
        => itf.xferred_len = g.rcvd)

(***************************************************************************)
(* C16: a call of tud_msc_async_io_done changes neither the MSC            *)
(* transaction state nor any endpoint: it only queues the deferred         *)
(* function.  The completion is applied when the device task runs          *)
(* proc_async_io_done, which for a READ_10 in its data stage and n > 0     *)
(* clears pending_io, arms a bulk IN transfer of n bytes and leaves the    *)
(* driver in the state the synchronous return of n leaves it in.           *)
(***************************************************************************)
FuncEvent == queue # <<>> /\ Head(queue).type = "func" /\ TaskHandles

AsyncDoneQueued ==
  /\ Len(queue') = Len(queue) + 1
  /\ queue'[Len(queue')].type = "func"

\* the driver after a read10 callback that returns n at once
SyncRead(n) ==
  {proc_read10_cmd([Pop(Cur) EXCEPT !.itf.pending_io = 0], [io |-> k, ok |-> TRUE]) :
     k \in {k \in {"full", "part"} :
              IoResult(k, read10_request(Cur)) = n}}

C17_StaleCompletionDiscarded ==
  [][(g.stale = "queued" /\ FuncEvent) => (itf' = itf /\ ep' = ep)]_vars

(***************************************************************************)
(* C18: one ASYNC return, at most one applied completion.  pending_io is   *)
(* raised only by a read10/write10 callback that returns ASYNC; a deferred *)
(* completion run by the device task always leaves pending_io = 0 and,     *)
(* when it finds pending_io = 0, changes nothing, so of several reports    *)
(* queued for one ASYNC return only the first is applied.  A call of       *)
(* tud_msc_async_io_done while no I/O is pending queues nothing.  A        *)
(* reported byte count of 0 is queued as TUD_MSC_RET_ERROR, and an error   *)
(* completion applied to a READ_10 or WRITE_10 sets the CSW status FAILED. *)
(***************************************************************************)
ReportedCounts == {0, 1, AppShort, CFG_TUD_MSC_EP_BUFSIZE, TUD_MSC_RET_ERROR}

C18_CompletionAtMostOnce ==
  /\ [][(itf.pending_io = 0 /\ itf'.pending_io = 1)
        => /\ g'.cb.fn \in {"read10", "write10"}
           /\ g'.cb.ret = TUD_MSC_RET_ASYNC]_vars
  /\ [][FuncEvent
        => /\ itf'.pending_io = 0
           /\ itf.pending_io = 0
                => itf' = itf /\ ep' = ep /\ epbuf' = epbuf /\ queue' = Tail(queue)]_vars
  /\ [](itf.pending_io = 0
        => \A n \in ReportedCounts : tud_msc_async_io_done(Cur, n) = Cur)
  /\ [](itf.pending_io = 1
        => tud_msc_async_io_done(Cur, 0).queue = Append(queue, EvFunc(TUD_MSC_RET_ERROR)))
  /\ [][(/\ FuncEvent
         /\ Head(queue) = EvFunc(TUD_MSC_RET_ERROR)
         /\ itf.pending_io = 1
         /\ itf.cbw.command \in {SCSI_CMD_READ_10, SCSI_CMD_WRITE_10})
        => itf'.csw.status = MSC_CSW_STATUS_FAILED]_vars

\* the first of two queued reports has been applied (a READ_10 chunk is armed
\* by a handler that called no callback), the second is still in the queue
C18_Witness ==
  /\ ValidRead /\ itf.stage = MSC_STAGE_DATA
  /\ itf.pending_io = 0
  /\ g.tx = "data" /\ g.cb = NoCall
  /\ ep[EP_IN_ADDR].stat = "VALID"
  /\ queue # <<>> /\ Head(queue).type = "func"

(***************************************************************************)
(* C19: the decision table of rdwr10_validate_cmd.  For every READ_10 or   *)
(* WRITE_10 CBW the result is PASSED when total_bytes = 0 and the block    *)
(* count is 0, PHASE_ERROR when total_bytes = 0 and the block count is not *)
(* 0; otherwise PHASE_ERROR when the direction contradicts the opcode,     *)
(* else FAILED when the block count is 0, else PHASE_ERROR when            *)
(* total_bytes / block count is 0, else PASSED.  A CBW whose result is not *)
(* PASSED is failed with that status in the CSW and neither read10 nor     *)
(* write10 callback is called.                                             *)
(***************************************************************************)
RdwrTotals == {0, 1, 8, 2 * CFG_TUD_MSC_EP_BUFSIZE}
RdwrBlockCounts == {0, 1, 2, 16}
RdwrCbws ==
  [tag : {1}, total_bytes : RdwrTotals, dir : {DIR_IN, DIR_OUT}, cmd_len : {10},
   command : {SCSI_CMD_READ_10, SCSI_CMD_WRITE_10}, lba : {10},
   block_count : RdwrBlockCounts]

ValidateTable(c) ==
  CASE c.total_bytes = 0 /\ c.block_count = 0 -> MSC_CSW_STATUS_PASSED
    [] c.total_bytes = 0 /\ c.block_count > 0 -> MSC_CSW_STATUS_PHASE_ERROR
    [] c.total_bytes > 0 /\ c.command = SCSI_CMD_READ_10 /\ c.dir = DIR_OUT ->
         MSC_CSW_STATUS_PHASE_ERROR
    [] c.total_bytes > 0 /\ c.command = SCSI_CMD_WRITE_10 /\ c.dir = DIR_IN ->
         MSC_CSW_STATUS_PHASE_ERROR
    [] OTHER -> IF c.block_count = 0 THEN MSC_CSW_STATUS_FAILED
                ELSE IF c.total_bytes < c.block_count THEN MSC_CSW_STATUS_PHASE_ERROR
                ELSE MSC_CSW_STATUS_PASSED

C19_ValidateTable ==
  CbwEventPending =>
    \A c \in RdwrCbws :
      /\ rdwr10_validate_cmd(c) = ValidateTable(c)
      /\ ValidateTable(c) # MSC_CSW_STATUS_PASSED =>
           \A app \in AppAnswers :
             LET N == AfterCbw(c, app) IN
             /\ N.cb = NoCall
             /\ N.itf.pending_io = itf.pending_io
             /\ N.itf.csw.status = ValidateTable(c)
             /\ N.itf.stage \in {MSC_STAGE_STATUS, MSC_STAGE_STATUS_SENT}
             /\ N.ep[EP_OUT_ADDR].stat # "VALID"
             /\ N.tx # "data"
             /\ N.tx = "csw" => N.ep[EP_IN_ADDR].data.csw.status = ValidateTable(c)

\* a READ_10 or WRITE_10 has been failed with PHASE_ERROR by the validation:
\* no callback was called and no byte moved
C19_Witness ==
  /\ g.open /\ ~g.reset
  /\ itf.cbw.command \in {SCSI_CMD_READ_10, SCSI_CMD_WRITE_10}
  /\ rdwr10_validate_cmd(itf.cbw) = MSC_CSW_STATUS_PHASE_ERROR
  /\ itf.csw.status = MSC_CSW_STATUS_PHASE_ERROR
  /\ itf.csw.tag = itf.cbw.tag
  /\ itf.xferred_len = 0
  /\ itf.stage \in {MSC_STAGE_STATUS, MSC_STAGE_STATUS_SENT}
  /\ g.cb = NoCall

(***************************************************************************)
(* C20: fail_scsi_op(status) sets csw.status to status and the stage to    *)
(* STATUS; it sets the sense to (ILLEGAL_REQUEST, 0x20, 0x00) only when    *)
(* sense_key was 0 and leaves it alone otherwise; it stalls bulk IN iff    *)
(* the direction is IN and total_bytes - xferred_len > 0, bulk OUT iff the *)
(* direction is OUT and total_bytes - xferred_len > 0, and changes no      *)
(* endpoint otherwise.  Consequently every CSW that is sent with status    *)
(* FAILED or PHASE_ERROR is sent while sense_key is not 0.                 *)
(***************************************************************************)
FailScsiOpContract ==
  \A status \in {MSC_CSW_STATUS_FAILED, MSC_CSW_STATUS_PHASE_ERROR} :
    LET N == fail_scsi_op(Cur, status) IN
    /\ N.itf.csw.status = status
    /\ N.itf.stage = MSC_STAGE_STATUS
    /\ Sense(N.itf) = IF itf.sense_key = 0
                      THEN <<SCSI_SENSE_ILLEGAL_REQUEST, 32, 0>>
                      ELSE Sense(itf)
    /\ \A a \in Bulk :
         IF /\ a = EP_IN_ADDR <=> itf.cbw.dir = DIR_IN
            /\ itf.cbw.total_bytes - itf.xferred_len > 0
         THEN N.ep[a] = [dcd_edpt_stall(ep[a]) EXCEPT !.stalled = TRUE, !.busy = TRUE]
         ELSE N.ep[a] = ep[a]

C20_FailScsiOp ==
  /\ (HostConfigured /\ itf.xferred_len <= itf.cbw.total_bytes) => FailScsiOpContract
  /\ (/\ g.tx = "csw" /\ CswArmed(Cur)
      /\ ep[EP_IN_ADDR].data.csw.status # MSC_CSW_STATUS_PASSED)
     => itf.sense_key # 0

(***************************************************************************)
(* C21: every valid CBW whose opcode is not built in and that has no OUT   *)
(* data phase (total_bytes = 0 or direction IN) is handed to               *)
(* tud_msc_scsi_cb by the handler that takes the CBW, in every reachable   *)
(* state of the interface; and the command is failed only when what the    *)
(* callback returned is negative or contradicts the data phase the host    *)
(* announced.                                                              *)
(***************************************************************************)
VendorCbws ==
  {c \in HostCbws : /\ c.command = SCSI_CMD_VENDOR
                    /\ c.total_bytes = 0 \/ is_data_in(c.dir)}

C21_ScsiCallbackInvoked ==
  CbwEventPending =>
    \A c \in VendorCbws, app \in AppAnswers :
      LET N == AfterCbw(c, app) IN
      /\ N.cb.fn = "scsi"
      /\ N.itf.csw.status # MSC_CSW_STATUS_PASSED
           => \/ N.cb.ret < 0
              \/ (N.cb.ret = 0) # (c.total_bytes = 0)

(***************************************************************************)
(* C22: sense clear-on-read.  A REQUEST_SENSE with an IN data phase puts   *)
(* the sense triple current at that moment in the response and clears the  *)
(* triple to (0, 0, 0), so the next REQUEST_SENSE reports key 0.  In every *)
(* other step the sense triple changes only when a command is failed, on   *)
(* MSC_REQ_RESET or on a bus reset.                                        *)
(***************************************************************************)
SenseReads ==
  {c \in HostCbws : /\ c.command = SCSI_CMD_REQUEST_SENSE
                    /\ c.total_bytes > 0 /\ is_data_in(c.dir)}

C23_CursorWithinPma == dcd.ep_buf_ptr <= FSDEV_PMA_SIZE

(***************************************************************************)
(* C24: every hardware slot and direction that is marked allocated has an  *)
(* ep_type that is control, isochronous, bulk or interrupt and a BTABLE    *)
(* address programmed for that slot and direction since the slot was       *)
(* cleared, also after dcd_edpt_open with a descriptor of any type.        *)
(***************************************************************************)
C24_AllocatedProgrammed ==
  \A i \in Slots, dir \in {TUSB_DIR_OUT, TUSB_DIR_IN} :
    dcd.ep_alloc_status[i].allocated[dir] =>
      /\ dcd.ep_alloc_status[i].ep_type \in
           {TUSB_XFER.CONTROL, TUSB_XFER.ISOCHRONOUS, TUSB_XFER.BULK, TUSB_XFER.INTERRUPT}
      /\ dcd.set[i][IF dir = TUSB_DIR_IN THEN BTABLE_BUF.TX ELSE BTABLE_BUF.RX]

(***************************************************************************)
(* Vocabulary of the slot table                                            *)
(***************************************************************************)
\* the slots in which direction dir of endpoint number n is allocated
SlotsOf(n, dir) ==
  {i \in Slots : dcd.ep_alloc_status[i].allocated[dir] /\ dcd.ep_alloc_status[i].ep_num = n}
IsIsoSlot(i) == dcd.ep_alloc_status[i].ep_type = TUSB_XFER.ISOCHRONOUS
EpNums == 0 .. (CFG_TUD_ENDPPOINT_MAX - 1)
XferTypes == {TUSB_XFER.CONTROL, TUSB_XFER.ISOCHRONOUS, TUSB_XFER.BULK, TUSB_XFER.INTERRUPT}
\* IN and OUT of one endpoint number share their slot unless one is isochronous
PairedUnlessIso ==
  \A n \in EpNums : \A i \in SlotsOf(n, TUSB_DIR_IN), j \in SlotsOf(n, TUSB_DIR_OUT) :
    ~IsIsoSlot(i) /\ ~IsIsoSlot(j) => i = j
\* an isochronous direction has its slot to itself
IsoAlone ==
  \A i \in Slots :
    IsIsoSlot(i) => ~(dcd.ep_alloc_status[i].allocated[0] /\ dcd.ep_alloc_status[i].allocated[1])
\* no endpoint number and direction is allocated in two slots
AllocatedOnce ==
  \A n \in EpNums, dir \in 0..1 : Cardinality(SlotsOf(n, dir)) <= 1
\* allocating what is allocated already returns its slot and changes nothing
AllocIdempotent ==
  \A a \in EpAddrs, t \in XferTypes :
    \A i \in SlotsOf(tu_edpt_number(a), tu_edpt_dir(a)) :
      dcd.ep_alloc_status[i].ep_type = t =>
        /\ dcd_ep_alloc(dcd, a, t).ret = i
        /\ dcd_ep_alloc(dcd, a, t).ep_alloc_status = dcd.ep_alloc_status

(***************************************************************************)
(* C25: slot pairing.  After any sequence of allocations since the last    *)
(* reset, the IN and OUT directions of one endpoint number are in the same *)
(* slot unless one of them is isochronous, an isochronous direction has    *)
(* its slot to itself, no endpoint number and direction is allocated in    *)
(* two slots, and allocating an (address, type) that is allocated already  *)
(* returns its slot and changes nothing.                                   *)
(***************************************************************************)
C25_SlotPairing ==
  /\ PairedUnlessIso
  /\ IsoAlone
  /\ AllocatedOnce
  /\ AllocIdempotent

\* no slot holds (ep_addr, ep_type) and none may take it
NoSlotFor(ep_addr, ep_type) ==
  LET n == tu_edpt_number(ep_addr)
      dir == tu_edpt_dir(ep_addr)
  IN \A i \in Slots :
       LET e == dcd.ep_alloc_status[i] IN
       /\ ~(e.allocated[dir] /\ e.ep_type = ep_type /\ e.ep_num = n)
       /\ \/ e.allocated[dir]
          \/ ep_type = TUSB_XFER.ISOCHRONOUS /\ e.allocated[1 - dir]
          \/ e.ep_num \notin {255, n}
          \/ e.ep_type \notin {255, ep_type}
\* a packet buffer of this size does not fit behind the cursor
NoRoomFor(packet_size) ==
  dcd.ep_buf_ptr + pma_align_buffer_size(packet_size) > FSDEV_PMA_SIZE

(***************************************************************************)
(* C26: dcd_edpt_open returns false when no hardware slot is available or  *)
(* the packet buffer does not fit in the remaining PMA, and then it        *)
(* programs no endpoint register and no BTABLE entry; it never re-programs *)
(* slot 0, the control endpoint.  Stated of the call on every reachable    *)
(* state, for every endpoint address and descriptor the device core opens. *)
(***************************************************************************)
C26_OpenFailsCleanly ==
  \A a \in OpenAddrs, d \in OpenDescs :
    LET N == dcd_edpt_open(DCall, a, d.xfer, d.size) IN
    /\ NoSlotFor(a, d.xfer) \/ NoRoomFor(d.size) =>
         /\ N.ret = FALSE
         /\ N.reg = dcd.reg
         /\ N.btable = dcd.btable
    /\ N.reg[0] = dcd.reg[0]
    /\ N.btable[0] = dcd.btable[0]

\* the transfer record of an endpoint address
\* queued_len never exceeds total_len
QueuedWithinTotal ==
  \A a \in EpAddrs : XferOf(dcd, a).queued_len <= XferOf(dcd, a).total_len
\* a step inside a transfer (submitted before, not completed or reset by the
\* step) does not lower queued_len
QueuedMonotone ==
  \A a \in h.busy \cap h'.busy : XferOf(dcd', a).queued_len >= XferOf(dcd, a).queued_len

(***************************************************************************)
(* C27: for every endpoint and direction queued_len <= total_len at all    *)
(* times, and between the submission of a transfer and its completion (or  *)
(* a bus reset) queued_len never decreases; for IN and for OUT transfers,  *)
(* whatever packet lengths the host sends.                                 *)
(***************************************************************************)
C27_QueuedLenBounded == []QueuedWithinTotal /\ [][QueuedMonotone]_vars

\* IN endpoint addresses, and the slot and TX buffer of one
InAddrs == {a \in EpAddrs : tu_edpt_dir(a) = TUSB_DIR_IN}
SlotOf(D, a) == XferOf(D, a).ep_idx
TxCount(D, a) == D.btable[SlotOf(D, a)][BTABLE_BUF.TX].count
\* the completions a handler run reported for an address
CompletionsOf(D, a) ==
  SelectSeq(D.ev, LAMBDA e : e.type = "xfer" /\ e.ep = a)
\* the call loaded the next packet of the transfer on a: min(remaining, mps)
\* bytes taken at offset queued_len, armed, nothing reported
NextPacketArmed(a) ==
  LET x == XferOf(dcd, a)
      len == tu_min16(x.total_len - x.queued_len, x.max_packet_size)
  IN /\ TxCount(dcd', a) = len
     /\ XferOf(dcd', a).queued_len = x.queued_len + len
     /\ XferOf(dcd', a).total_len = x.total_len
     /\ dcd'.reg[SlotOf(dcd, a)].stat_tx = EP_STAT.VALID
     /\ dcd'.ev = <<>>
\* the submission of an IN transfer arms its first packet
InSubmitStep ==
  \A a \in InAddrs \ h.busy, total \in XferLens :
    /\ h'.nxfer = h.nxfer + 1 /\ a \in h'.busy
    /\ dcd' = fsdev_edpt_xfer(DCall, a, total)
    =>
      /\ XferOf(dcd', a).total_len = total
      /\ TxCount(dcd', a) = tu_min16(total, XferOf(dcd, a).max_packet_size)
      /\ XferOf(dcd', a).queued_len = TxCount(dcd', a)
      /\ dcd'.reg[SlotOf(dcd, a)].stat_tx = EP_STAT.VALID
      /\ dcd'.ev = <<>>
\* a TX completion of a transfer in flight arms the next packet, or after
\* the last packet reports the transfer once with total_len
InCompletionStep ==
  \A i \in Slots :
    LET a == SlotAddr(i, TUSB_DIR_IN) IN
    /\ dcd.reg[i].ctr_tx = 1 /\ dcd'.reg[i].ctr_tx = 0
    /\ dcd.reg[i].type # USB_EP.ISOCHRONOUS
    /\ a \in h.busy
    /\ dcd' = [dcd_ep_ctr_tx_handler(DCall, i) EXCEPT !.ret = TRUE]
    => IF XferOf(dcd, a).queued_len # XferOf(dcd, a).total_len
       THEN NextPacketArmed(a)
       ELSE /\ dcd'.ev = <<[type |-> "xfer", ep |-> a, len |-> XferOf(dcd, a).total_len]>>
            /\ dcd'.reg[i].stat_tx = dcd.reg[i].stat_tx
            /\ h.moved[a] = XferOf(dcd, a).total_len
            /\ dcd'.xfer_status = dcd.xfer_status
\* no IN transfer is reported twice, and none before the host took it all
InReportedOnce ==
  \A a \in InAddrs :
    /\ h.nrep[a] <= 1
    /\ CompletionsOf(dcd, a) # <<>> =>
         /\ Len(CompletionsOf(dcd, a)) = 1
         /\ h.moved[a] = XferOf(dcd, a).total_len
    /\ a \in h.busy => h.moved[a] <= XferOf(dcd, a).queued_len

(***************************************************************************)
(* C28: a non-isochronous IN transfer is sent as packets of                *)
(* min(remaining, max_packet_size) bytes, in order, one per TX completion; *)
(* xfer_complete is reported exactly once, on the TX completion that       *)
(* follows the last packet, with length total_len.  A zero-length transfer *)
(* sends one empty packet and completes with 0.                            *)
(***************************************************************************)
C28_InTransfer == []InReportedOnce /\ [][InSubmitStep /\ InCompletionStep]_vars
\* the TX completion after the third packet of a 20-byte transfer on a
\* numbered endpoint reports it
C28_Witness ==
  \E a \in InAddrs \ {128} :
    /\ dcd.ev = <<[type |-> "xfer", ep |-> a, len |-> 20]>>
    /\ h.moved[a] = 20 /\ h.nrep[a] = 1
    /\ TxCount(dcd, a) = 4

\* what an RX completion of the OUT transfer in flight on slot i must do
OutCompletionOn(i) ==
  LET a == SlotAddr(i, TUSB_DIR_OUT)
      x == XferOf(dcd, a)
      count == dcd.btable[i][BTABLE_BUF.RX].count
      q == x.queued_len + count
  IN /\ XferOf(dcd', a).queued_len = q
     /\ XferOf(dcd', a).total_len = x.total_len
     /\ IF count < x.max_packet_size \/ q = x.total_len
        THEN /\ dcd'.ev = <<[type |-> "xfer", ep |-> a, len |-> q]>>
             /\ dcd'.reg[i].stat_rx = dcd.reg[i].stat_rx
        ELSE /\ q < x.total_len
             /\ dcd'.btable[i][BTABLE_BUF.RX].bufsize
                  = tu_min16(x.total_len - q, x.max_packet_size)
             /\ dcd'.reg[i].stat_rx = EP_STAT.VALID
             /\ dcd'.ev = <<>>
\* every RX completion of a data packet of a transfer in flight
OutCompletionStep ==
  \A i \in Slots :
    /\ dcd.reg[i].ctr_rx = 1 /\ dcd'.reg[i].ctr_rx = 0
    /\ dcd.reg[i].setup = 0 /\ dcd.reg[i].type # USB_EP.ISOCHRONOUS
    /\ SlotAddr(i, TUSB_DIR_OUT) \in h.busy
    /\ dcd' = [dcd_ep_ctr_rx_handler(DCall, i) EXCEPT !.ret = TRUE]
    => OutCompletionOn(i)
\* no OUT transfer is reported twice
OutReportedOnce ==
  \A a \in EpAddrs \ InAddrs :
    h.nrep[a] <= 1 /\ Len(CompletionsOf(dcd, a)) <= 1

(***************************************************************************)
(* C29: on a non-isochronous OUT transfer every RX completion adds the     *)
(* received byte count to queued_len; xfer_complete is reported exactly    *)
(* once, with queued_len, on the first packet shorter than max_packet_size *)
(* or when queued_len reaches total_len; otherwise the endpoint is         *)
(* re-armed with RX buffer size min(total_len - queued_len,                *)
(* max_packet_size) and STAT_RX = VALID, and the subtraction never         *)
(* underflows.                                                             *)
(***************************************************************************)
C29_OutTransfer == []OutReportedOnce /\ [][OutCompletionStep]_vars

\* what the RX completion of a SETUP packet on slot i must do
SetupCompletionOn(i) ==
  LET count == dcd.btable[i][BTABLE_BUF.RX].count IN
  /\ IF count = 8
     THEN /\ dcd'.ev = <<[type |-> "setup", ep |-> 0, len |-> 8]>>
          /\ dcd'.reg[0].stat_tx = EP_STAT.NAK /\ dcd'.reg[0].stat_rx = EP_STAT.NAK
          /\ dcd'.reg[0].dtog_tx = 1 /\ dcd'.reg[0].dtog_rx = 1
     ELSE /\ dcd'.ev = <<>>
          /\ dcd'.reg[0].stat_tx = dcd.reg[0].stat_tx
          /\ dcd'.reg[0].stat_rx = dcd.reg[0].stat_rx
          /\ dcd'.reg[0].dtog_tx = dcd.reg[0].dtog_tx
          /\ dcd'.reg[0].dtog_rx = dcd.reg[0].dtog_rx
  /\ dcd'.btable[0][BTABLE_BUF.RX].bufsize = CFG_TUD_ENDPOINT0_SIZE
  /\ dcd'.reg[0].ctr_rx = 0
\* every RX completion that carries the SETUP bit
SetupCompletionStep ==
  \A i \in Slots :
    /\ dcd.reg[i].ctr_rx = 1 /\ dcd.reg[i].setup = 1
    /\ dcd' = [dcd_ep_ctr_rx_handler(DCall, i) EXCEPT !.ret = TRUE]
    => SetupCompletionOn(i)

ControlSlot ==
  [ep_num |-> 0, ep_type |-> TUSB_XFER.CONTROL, allocated |-> [d \in 0..1 |-> TRUE]]
\* the cursor right after a bus reset
CursorAfterReset == dcd_init.ep_buf_ptr
\* what dcd_edpt_close_all must leave behind
ClosedAll(D) ==
  /\ D.ep_alloc_status[0] = ControlSlot
  /\ \A i \in Slots \ {0} :
       /\ D.ep_alloc_status[i] = FreeSlot
       /\ D.reg[i].stat_tx = EP_STAT.DIS /\ D.reg[i].stat_rx = EP_STAT.DIS
  /\ D.ep_buf_ptr = CursorAfterReset
\* the packet buffers programmed into slots other than 0 start behind BTABLE
\* and the endpoint-0 buffers, and no two slots share one (the value 0xFFFF
\* of a failed allocation is no buffer)
BuffersApart ==
  \A i \in Slots \ {0}, b \in 0..1 :
    dcd.set[i][b] /\ dcd.btable[i][b].addr # 65535 =>
      /\ dcd.btable[i][b].addr >= CursorAfterReset
      /\ \A j \in Slots \ {0, i}, c \in 0..1 :
           dcd.set[j][c] => dcd.btable[j][c].addr # dcd.btable[i][b].addr

(***************************************************************************)
(* C38: after dcd_edpt_close_all slot 0 is still allocated as the control  *)
(* endpoint, every other slot is free and its register disabled, and the   *)
(* PMA cursor equals its value right after a bus reset; hence across bus   *)
(* reset, open, iso_alloc and close_all no packet buffer handed out        *)
(* overlaps BTABLE, the endpoint-0 buffers or another buffer handed out    *)
(* since the last reset or close_all.                                      *)
(***************************************************************************)
C38_CloseAllRestores ==
  /\ [][dcd' = [dcd_edpt_close_all(DCall) EXCEPT !.ret = TRUE] => ClosedAll(dcd')]_vars
  /\ []BuffersApart

\* what an isochronous allocation that fits must take and program
IsoAllocExact(a, size) ==
  LET len == pma_align_buffer_size(size)
      k == XferOf(dcd', a).ep_idx
  IN IF FSDEV_PMA_SIZE > 1024
     THEN /\ dcd'.ep_buf_ptr = dcd.ep_buf_ptr + 2 * len
          /\ dcd'.btable[k][0].addr = dcd.ep_buf_ptr
          /\ dcd'.btable[k][1].addr = dcd.ep_buf_ptr + len
     ELSE /\ dcd'.ep_buf_ptr = dcd.ep_buf_ptr + len
          /\ dcd'.btable[k][0].addr = dcd.ep_buf_ptr
          /\ dcd'.btable[k][1].addr = dcd.ep_buf_ptr

(***************************************************************************)
(* C37: dcd_edpt_iso_alloc takes from the PMA allocator exactly the memory *)
(* it makes reachable through the slot's two BTABLE entries: with          *)
(* FSDEV_PMA_SIZE > 1024 two contiguous buffers, entry 0 the first and     *)
(* entry 1 the second; with FSDEV_PMA_SIZE <= 1024 both entries point at   *)
(* one buffer and the cursor advances by one aligned buffer length only.   *)
(* Stated of every call whose buffers fit behind the cursor.               *)
(***************************************************************************)
C37_IsoAllocTakesWhatItMaps ==
  [][\A a \in OpenAddrs, size \in IsoSizes :
       /\ dcd.ep_buf_ptr + 2 * pma_align_buffer_size(size) <= FSDEV_PMA_SIZE
       /\ dcd' = dcd_edpt_iso_alloc(DCall, a, size)
       => IsoAllocExact(a, size)]_vars


\* the step is dcd_edpt_iso_activate on the reserved endpoint a
IsoActivateStep(a) ==
  /\ a \notin h.opened /\ a \in h'.opened
  /\ dcd' = dcd_edpt_iso_activate(DCall, a, CFG_TUD_ENDPOINT0_SIZE)

\* what the activation leaves in the slot k of endpoint a
IsoActivated(a) ==
  LET k == XferOf(dcd, a).ep_idx IN
  /\ dcd'.reg[k].type = USB_EP.ISOCHRONOUS
  /\ dcd'.reg[k].ea = tu_edpt_number(a)
  /\ dcd'.reg[k].stat_tx = EP_STAT.DIS
  /\ dcd'.reg[k].stat_rx = EP_STAT.DIS
  /\ IF tu_edpt_dir(a) = TUSB_DIR_IN
     THEN dcd'.reg[k].dtog_rx = 1 - dcd.reg[k].dtog_rx
     ELSE dcd'.reg[k].dtog_tx = 1 - dcd.reg[k].dtog_tx

\* C36: dcd_edpt_iso_activate leaves the slot of the endpoint with type
\* ISOCHRONOUS, the endpoint's number, STAT_TX = STAT_RX = DISABLED and the
\* DTOG bit of the opposite direction flipped relative to the slot's own
\* previous value, whatever the registers of the other endpoints hold.
C36_IsoActivate ==
  [][\A a \in OpenAddrs : IsoActivateStep(a) => IsoActivated(a)]_vars


\* the step is the service of a TX completion on the isochronous slot i
IsoTxService(i) ==
  /\ dcd.reg[i].ctr_tx = 1 /\ dcd'.reg[i].ctr_tx = 0
  /\ dcd.reg[i].type = USB_EP.ISOCHRONOUS
  /\ dcd' = [dcd_ep_ctr_tx_handler(DCall, i) EXCEPT !.ret = TRUE]

\* a completion nobody scheduled: only the CTR_TX bit changes
SpuriousIgnored(i) ==
  /\ dcd'.ev = <<>>
  /\ dcd'.xfer_status = dcd.xfer_status
  /\ dcd'.btable = dcd.btable
  /\ dcd'.reg = [dcd.reg EXCEPT ![i].ctr_tx = 0]

\* a scheduled completion: the buffer just sent is emptied and the transfer
\* loads its next packet (which sets the flag again) or reports its end
ScheduledServiced(i) ==
  LET n == dcd.reg[i].ea
      x == dcd.xfer_status[n][TUSB_DIR_IN]
      y == dcd'.xfer_status[n][TUSB_DIR_IN]
      active == dcd.reg[i].dtog_tx
  IN /\ dcd'.btable[i][1 - active].count = 0
     /\ y.total_len = x.total_len
     /\ IF x.total_len # x.queued_len
        THEN /\ dcd'.ev = <<>>
             /\ y.queued_len > x.queued_len
             /\ dcd'.btable[i][active].count = y.queued_len - x.queued_len
             /\ dcd'.reg[i].stat_tx = EP_STAT.VALID
             /\ y.iso_in_sending
        ELSE /\ dcd'.ev = <<[type |-> "xfer", ep |-> n + 128, len |-> x.total_len]>>
             /\ y.queued_len = x.queued_len
             /\ ~y.iso_in_sending

\* C33: a TX completion on an isochronous IN endpoint whose iso_in_sending is
\* false only gets CTR_TX cleared: no event, no packet, queued_len, total_len
\* and the BTABLE counts unchanged; with the flag true the count of the
\* inactive buffer is set to 0 and the transfer continues or completes.
C33_IsoSpurious ==
  [][\A i \in Slots : IsoTxService(i) =>
       IF dcd.xfer_status[dcd.reg[i].ea][TUSB_DIR_IN].iso_in_sending
       THEN ScheduledServiced(i) ELSE SpuriousIgnored(i)]_vars

\* an endpoint finished a transfer of three packets and then had a completion
\* ignored
C33_Witness ==
  \E a \in h.ign :
    /\ h.nrep[a] = 1 /\ a \notin h.busy
    /\ XferOf(dcd, a).total_len = 20 /\ XferOf(dcd, a).queued_len = 20
    /\ dcd.ev = <<>>


\* C34: the TX completion of a packet that a transfer scheduled on an
\* isochronous IN endpoint is never serviced while iso_in_sending is false:
\* no scheduled packet's completion is dropped as spurious.
C34_NoScheduledDropped == \A i \in Slots : h.sched[i] # "dropped"


\* the step is the service of an RX completion on slot i
RxService(i) ==
  /\ dcd.reg[i].ctr_rx = 1 /\ dcd'.reg[i].ctr_rx = 0
  /\ dcd' = [dcd_ep_ctr_rx_handler(DCall, i) EXCEPT !.ret = TRUE]

\* a data packet with bytes in it is read while CTR_RX of its slot is still set
ReadBeforeClear(i) ==
  dcd.reg[i].setup = 0 /\ dcd.btable[i][BTABLE_BUF.RX].count # 0
    => dcd_ep_ctr_rx_handler_at_read(DCall, i).reg[i].ctr_rx = 1

\* on endpoint 0 everything but the clear of CTR_RX is done while it is set
Ep0ClearLast(i) ==
  dcd.reg[i].ea = 0 =>
    LET E == dcd_ep_ctr_rx_handler_body(DCall, i) IN
    /\ E.reg[i].ctr_rx = 1
    /\ E.ev = dcd'.ev /\ E.xfer_status = dcd'.xfer_status
    /\ dcd'.btable[i][BTABLE_BUF.RX].bufsize = CFG_TUD_ENDPOINT0_SIZE
    /\ \A j \in Slots : dcd'.reg[j] = [E.reg[j] EXCEPT !.ctr_rx = IF j = i THEN 0 ELSE @]

\* C35: the RX completion handler clears CTR_RX of an endpoint only after it
\* has read the received data out of the packet memory; for endpoint 0 the
\* clear is the last step, after the data or SETUP packet was read and the RX
\* buffer size was restored.
C35_ReadThenClear ==
  [][\A i \in Slots : RxService(i) => ReadBeforeClear(i) /\ Ep0ClearLast(i)]_vars


\* the step is an iteration of the completion loop that services slot i
CtrIterOn(i) ==
  /\ dcd.isr.pc = "ctr" /\ dcd'.isr.pc = "ctr"
  /\ dcd.reg[i].ctr_tx = 1 \/ dcd.reg[i].ctr_rx = 1
  /\ LET R == dcd_ep_ctr_handler_iter(DCall, i)
     IN dcd' = [R EXCEPT !.ev = dcd.ev \o R.ev, !.ret = TRUE]

\* the iteration clears the completion flag of the direction ISTR named
ClearsServiced(i) ==
  IF dcd.reg[i].ctr_rx = 1 THEN dcd'.reg[i].ctr_rx = 0 ELSE dcd'.reg[i].ctr_tx = 0

\* the step leaves the completion loop
CtrLoopExit == dcd.isr.pc = "ctr" /\ dcd'.isr.pc # "ctr"

\* C32: dcd_ep_ctr_handler returns only when ISTR.CTR is clear, and every
\* iteration of its loop clears the CTR bit of the endpoint and direction it
\* services, so that the loop ends once the peripheral raises no further
\* completion.
C32_CtrLoopDrains ==
  [][/\ CtrLoopExit => ~IstrCtr(dcd)
     /\ \A i \in Slots : CtrIterOn(i) => ClearsServiced(i)]_vars


\* the step is an entry of dcd_int_handler with RESET pending
ResetEntry ==
  /\ dcd.isr.pc = "idle" /\ dcd.istr.reset = 1
  /\ dcd' = [dcd_int_handler_head(DCall) EXCEPT !.ret = TRUE]

\* the events of that invocation: a pending SOF first, the bus reset last
ResetEvents ==
  (IF dcd.istr.sof = 1 THEN <<[type |-> "sof", ep |-> 0, len |-> 0]>> ELSE <<>>)
    \o <<[type |-> "bus_reset", ep |-> 0, len |-> 0]>>

ResumeForFourEsof ==
  /\ dcd.remoteWakeCountdown \in 0 .. 4
  /\ h.woke => (dcd.cntr.resume = 1 <=> h.nesof < 4)

\* the step is the part of dcd_int_handler that handles a pending ESOF
EsofHandled ==
  /\ dcd.isr.pc # "idle" /\ dcd'.isr.pc = "idle" /\ dcd.isr.int_status.esof = 1
  /\ dcd' = [dcd_int_handler_tail(dcd) EXCEPT !.ret = TRUE]

\* one decrement per handled ESOF down to 0; at 0 RESUME is left alone
CountdownStep ==
  /\ dcd'.remoteWakeCountdown =
       IF dcd.remoteWakeCountdown > 0 THEN dcd.remoteWakeCountdown - 1 ELSE 0
  /\ dcd.remoteWakeCountdown = 0 => dcd'.cntr.resume = dcd.cntr.resume

\* C40: after dcd_remote_wakeup sets RESUME the bit stays set until the 4th
\* subsequent ESOF interrupt is handled and is cleared exactly then; the
\* countdown is decremented once per handled ESOF, stops at 0 and never
\* underflows, and an ESOF with the countdown at 0 leaves RESUME untouched.
C40_ResumeCountdown ==
  /\ []ResumeForFourEsof
  /\ [][EsofHandled => CountdownStep]_vars


\* C39: for every READ_10 / WRITE_10 command block that rdwr10_validate_cmd
\* passes with total_bytes > 0, the 16-bit block size the data stage divides
\* by is not zero, for all 32-bit total_bytes and 16-bit block counts.
C39_BlockSizeNonZero ==
  itf.stage = MSC_STAGE_DATA => rdwr10_get_blocksize(itf.cbw) # 0

====
